---- MODULE Spec2Model ----
(***************************************************************************)
(* A model of waffel's PDF data source (src/waffel/data_source_pdf.py):    *)
(* the property-block parser, the two-pass pillar resolver, the            *)
(* question/choice segmenter and the improvement-item URL matcher.         *)
(*                                                                         *)
(* Text is modelled as TLA+ strings, character for character; the Python   *)
(* string methods and regular expressions the code uses are operators      *)
(* below.  Indexes are 1-based here and 0-based in the source.             *)
(***************************************************************************)
EXTENDS Integers, Sequences, FiniteSets, TLC

(***************************************************************************)
(* Python string primitives.                                               *)
(***************************************************************************)
Char(s, k) == SubSeq(s, k, k)

Digits == {"0", "1", "2", "3", "4", "5", "6", "7", "8", "9"}

\* str.isspace for the characters that occur in extracted text
Whitespace == {" ", "\t"}

UpperCase == {"A", "B", "C", "D", "E", "F", "G", "H", "I", "J", "K", "L", "M",
              "N", "O", "P", "Q", "R", "S", "T", "U", "V", "W", "X", "Y", "Z"}

LowerOf == [c \in UpperCase |->
             CASE c = "A" -> "a" [] c = "B" -> "b" [] c = "C" -> "c" [] c = "D" -> "d"
               [] c = "E" -> "e" [] c = "F" -> "f" [] c = "G" -> "g" [] c = "H" -> "h"
               [] c = "I" -> "i" [] c = "J" -> "j" [] c = "K" -> "k" [] c = "L" -> "l"
               [] c = "M" -> "m" [] c = "N" -> "n" [] c = "O" -> "o" [] c = "P" -> "p"
               [] c = "Q" -> "q" [] c = "R" -> "r" [] c = "S" -> "s" [] c = "T" -> "t"
               [] c = "U" -> "u" [] c = "V" -> "v" [] c = "W" -> "w" [] c = "X" -> "x"
               [] c = "Y" -> "y" [] c = "Z" -> "z"]

DigitValue == [c \in Digits |->
                CASE c = "0" -> 0 [] c = "1" -> 1 [] c = "2" -> 2 [] c = "3" -> 3
                  [] c = "4" -> 4 [] c = "5" -> 5 [] c = "6" -> 6 [] c = "7" -> 7
                  [] c = "8" -> 8 [] c = "9" -> 9]

\* s[k:] of Python, with k the 1-based index of the first character kept
From(s, k) == IF k > Len(s) THEN "" ELSE SubSeq(s, k, Len(s))

\* sub in s
Contains(s, sub) ==
    \E k \in 1..(Len(s) - Len(sub) + 1) : SubSeq(s, k, k + Len(sub) - 1) = sub

\* s.startswith(sub)
StartsWith(s, sub) == Len(s) >= Len(sub) /\ SubSeq(s, 1, Len(sub)) = sub

\* s.endswith(sub)
EndsWith(s, sub) ==
    Len(s) >= Len(sub) /\ SubSeq(s, Len(s) - Len(sub) + 1, Len(s)) = sub

\* s.find(sub) + 1: the 1-based index of the first occurrence, 0 when absent
Find(s, sub) ==
    IF Contains(s, sub)
    THEN CHOOSE k \in 1..(Len(s) - Len(sub) + 1) :
            /\ SubSeq(s, k, k + Len(sub) - 1) = sub
            /\ \A m \in 1..(k - 1) : SubSeq(s, m, m + Len(sub) - 1) # sub
    ELSE 0

RECURSIVE LStrip(_)
LStrip(s) == IF Len(s) > 0 /\ Char(s, 1) \in Whitespace THEN LStrip(From(s, 2)) ELSE s

RECURSIVE RStrip(_)
RStrip(s) ==
    IF Len(s) > 0 /\ Char(s, Len(s)) \in Whitespace
    THEN RStrip(SubSeq(s, 1, Len(s) - 1))
    ELSE s

\* s.strip()
Strip(s) == LStrip(RStrip(s))

RECURSIVE Lower(_)
\* s.lower()
Lower(s) ==
    IF Len(s) = 0 THEN ""
    ELSE (IF Char(s, 1) \in UpperCase THEN LowerOf[Char(s, 1)] ELSE Char(s, 1))
           \o Lower(From(s, 2))

UpperOf == [c \in {LowerOf[u] : u \in UpperCase} |-> CHOOSE u \in UpperCase : LowerOf[u] = c]

RECURSIVE Upper(_)
\* s.upper()
Upper(s) ==
    IF Len(s) = 0 THEN ""
    ELSE (IF Char(s, 1) \in DOMAIN UpperOf THEN UpperOf[Char(s, 1)] ELSE Char(s, 1))
           \o Upper(From(s, 2))

RECURSIVE Replace(_, _, _)
\* s.replace(old, new), old not empty: every non-overlapping occurrence, left to right
Replace(s, old, new) ==
    LET k == Find(s, old) IN
    IF k = 0 THEN s
    ELSE SubSeq(s, 1, k - 1) \o new \o Replace(From(s, k + Len(old)), old, new)

RECURSIVE Split(_)
\* s.split(): the maximal runs of non-whitespace characters
Split(s) ==
    LET t == LStrip(s) IN
    IF Len(t) = 0 THEN <<>>
    ELSE LET stops == {k \in 1..Len(t) : Char(t, k) \in Whitespace}
             n == IF stops = {} THEN Len(t)
                  ELSE (CHOOSE k \in stops : \A m \in stops : k <= m) - 1
         IN <<SubSeq(t, 1, n)>> \o Split(From(t, n + 1))

RECURSIVE Join(_, _)
\* sep.join(parts)
Join(sep, parts) ==
    IF Len(parts) = 0 THEN ""
    ELSE IF Len(parts) = 1 THEN parts[1]
    ELSE parts[1] \o sep \o Join(sep, Tail(parts))

RECURSIVE DigitRun(_, _)
\* the number of digits of s from position k on (the greedy \d* of a regex)
DigitRun(s, k) ==
    IF k <= Len(s) /\ Char(s, k) \in Digits THEN 1 + DigitRun(s, k + 1) ELSE 0

RECURSIVE SpaceRun(_, _)
\* the number of whitespace characters of s from position k on (the \s* of a regex)
SpaceRun(s, k) ==
    IF k <= Len(s) /\ Char(s, k) \in Whitespace THEN 1 + SpaceRun(s, k + 1) ELSE 0

RECURSIVE ToInt(_)
\* int(s) of a string of digits
ToInt(s) ==
    IF Len(s) = 0 THEN 0
    ELSE 10 * ToInt(SubSeq(s, 1, Len(s) - 1)) + DigitValue[Char(s, Len(s))]

\* f"{n:02d}"
Pad2(n) == IF n < 10 THEN "0" \o ToString(n) ELSE ToString(n)

(***************************************************************************)
(* The regular expressions of the pillar resolver and the segmenter.       *)
(***************************************************************************)
\* re.match(r'^(\d+)\.\s*(.+)', line)
QuestionMatch(line) ==
    LET n == DigitRun(line, 1) IN
    n >= 1 /\ Len(line) >= n + 2 /\ Char(line, n + 1) = "."

\* int(match.group(1))
QuestionNum(line) == ToInt(SubSeq(line, 1, DigitRun(line, 1)))

\* match.group(2): \s* is greedy and gives one character back when nothing else is left
QuestionText(line) ==
    LET rest == From(line, DigitRun(line, 1) + 2) IN
    IF LStrip(rest) = "" THEN Char(rest, Len(rest)) ELSE LStrip(rest)

\* re.match(r'^\d+\.\s', line)
QuestionBoundary(line) ==
    LET n == DigitRun(line, 1) IN
    /\ n >= 1
    /\ Len(line) >= n + 2
    /\ Char(line, n + 1) = "."
    /\ Char(line, n + 2) \in Whitespace

PillarNames == <<"Operational Excellence", "Security", "Reliability",
                 "Performance Efficiency", "Cost Optimization", "Sustainability">>

PillarAbbrevs == <<"OPS", "SEC", "REL", "PERF", "COST", "SUS">>

\* pillar_map.get(pillar_abbrev, 'Unknown')
pillar_map(abbrev) ==
    IF \E k \in 1..6 : PillarAbbrevs[k] = abbrev
    THEN PillarNames[CHOOSE k \in 1..6 : PillarAbbrevs[k] = abbrev]
    ELSE "Unknown"

\* pillar_abbrev_map.get(pillar, 'UNK')
pillar_abbrev_map(pillar) ==
    IF \E k \in 1..6 : PillarNames[k] = pillar
    THEN PillarAbbrevs[CHOOSE k \in 1..6 : PillarNames[k] = pillar]
    ELSE "UNK"

\* the alternative of (OPS|SEC|REL|PERF|COST|SUS) that line starts with, ignoring
\* case; "" when there is none
ProperIdPrefix(line) ==
    LET head == Upper(SubSeq(line, 1, IF Len(line) < 4 THEN Len(line) ELSE 4))
        hits == {k \in 1..6 : StartsWith(head, PillarAbbrevs[k])}
    IN IF hits = {} THEN "" ELSE PillarAbbrevs[CHOOSE k \in hits : TRUE]

\* the position of the first digit of group 2, after the abbreviation and \s*
ProperIdNumAt(line) ==
    LET a == Len(ProperIdPrefix(line)) IN a + 1 + SpaceRun(line, a + 1)

\* re.match(r'^(OPS|SEC|REL|PERF|COST|SUS)\s*(\d+)\.(.+)', line, re.IGNORECASE)
ProperIdMatch(line) ==
    LET k == ProperIdNumAt(line)
        n == DigitRun(line, k)
    IN /\ ProperIdPrefix(line) # ""
       /\ n >= 1
       /\ Len(line) >= k + n + 1
       /\ Char(line, k + n) = "."

\* int(proper_id_match.group(2))
ProperIdNum(line) ==
    LET k == ProperIdNumAt(line) IN ToInt(SubSeq(line, k, k + DigitRun(line, k) - 1))

\* proper_id_match.group(3).strip()
ProperIdText(line) ==
    LET k == ProperIdNumAt(line) IN Strip(From(line, k + DigitRun(line, k) + 1))

\* ' '.join(q_text.lower().split()[:4])
question_key_words(q_text) ==
    LET words == Split(Lower(q_text)) IN
    Join(" ", SubSeq(words, 1, IF Len(words) < 4 THEN Len(words) ELSE 4))

\* composite_key = (q_num, question_key_words)
composite_key(q_num, q_text) == <<q_num, question_key_words(q_text)>>

\* an assignment that leaves a key the dict already has alone
DictPutIfAbsent(map, key, value) ==
    [k \in (DOMAIN map) \cup {key} |-> IF k \in DOMAIN map THEN map[k] ELSE value]

\* question_pillar_map[key] = value
DictPut(map, key, value) ==
    [k \in (DOMAIN map) \cup {key} |-> IF k = key THEN value ELSE map[k]]

\* the body of the pass-1 loop for one line
Pass1Line(map, raw) ==
    LET line == Strip(raw) IN
    IF ProperIdMatch(line)
    THEN DictPut(map,
                 composite_key(ProperIdNum(line), ProperIdText(line)),
                 <<pillar_map(ProperIdPrefix(line)), ProperIdPrefix(line)>>)
    ELSE map

RECURSIVE Pass1Lines(_, _)
\* for line in lines: ...
Pass1Lines(map, lines) ==
    IF Len(lines) = 0 THEN map
    ELSE Pass1Lines(Pass1Line(map, lines[1]), Tail(lines))

RECURSIVE Pass1Pages(_, _)
\* PASS 1: for page_num, page in enumerate(reader.pages, 1): ...
Pass1Pages(map, pgs) ==
    IF Len(pgs) = 0 THEN map
    ELSE Pass1Pages(Pass1Lines(map, pgs[1]), Tail(pgs))

\* re.sub(r'\s*(Unanswered|Not Applicable)\s*$', '', q_text).strip()
CleanQuestionText(q_text) ==
    LET t == RStrip(q_text) IN
    Strip(IF EndsWith(t, "Unanswered")
          THEN RStrip(SubSeq(t, 1, Len(t) - Len("Unanswered")))
          ELSE IF EndsWith(t, "Not Applicable")
          THEN RStrip(SubSeq(t, 1, Len(t) - Len("Not Applicable")))
          ELSE q_text)

(***************************************************************************)
(* The reference-URL index and the improvement-item URL matcher.           *)
(*                                                                         *)
(* A table-of-contents document is a record [ok, contents]: ok = FALSE is  *)
(* a fetch that raised (network error, no JSON).  A node is a record with  *)
(* the fields the JSON object has, among title, href and contents.         *)
(***************************************************************************)
RECURSIVE ProcessTocParentFirst(_, _, _)
\* a flattening that records a node before its children
ProcessTocParentFirst(toc, base_url, acc) ==
    IF Len(toc) = 0 THEN acc
    ELSE LET t == toc[1] IN
         IF ~acc.ok \/ ~({"title", "href"} \subseteq DOMAIN t)
         THEN [ok |-> FALSE, pages |-> <<>>]
         ELSE LET own == [ok |-> TRUE,
                          pages |-> Append(acc.pages,
                                           <<t.title, base_url \o "/" \o t.href>>)]
                  sub == IF "contents" \in DOMAIN t
                         THEN ProcessTocParentFirst(t.contents, base_url, own)
                         ELSE own
              IN ProcessTocParentFirst(Tail(toc), base_url, sub)

RECURSIVE ProcessToc(_, _, _)
\* _process(toc) appending to all_pages; ok = FALSE when a node raised KeyError
ProcessToc(toc, base_url, acc) ==
    IF Len(toc) = 0 THEN acc
    ELSE LET t == toc[1]
             sub == IF "contents" \in DOMAIN t
                    THEN ProcessToc(t.contents, base_url, acc)
                    ELSE acc
         IN IF ~acc.ok \/ ~sub.ok THEN [ok |-> FALSE, pages |-> <<>>]
            ELSE IF ~({"title", "href"} \subseteq DOMAIN t)
            THEN [ok |-> FALSE, pages |-> <<>>]
            ELSE ProcessToc(Tail(toc), base_url,
                            [ok |-> TRUE,
                             pages |-> Append(sub.pages,
                                              <<t.title, base_url \o "/" \o t.href>>)])

\* a fetch that falls back on a built-in page when the document cannot be read
FetchWithDefault(doc, base_url) ==
    IF ~doc.ok \/ "contents" \notin DOMAIN doc
    THEN <<<<"Identify Alerts", base_url \o "/ia.html">>>>
    ELSE LET r == ProcessToc(doc.contents, base_url, [ok |-> TRUE, pages |-> <<>>])
         IN IF r.ok THEN r.pages ELSE <<<<"Identify Alerts", base_url \o "/ia.html">>>>

\* the body of get_wa_framework_urls: the pages of the fetched document, [] on any
\* exception
FetchWaFrameworkUrls(doc, base_url) ==
    IF ~doc.ok \/ "contents" \notin DOMAIN doc THEN <<>>
    ELSE LET r == ProcessToc(doc.contents, base_url, [ok |-> TRUE, pages |-> <<>>])
         IN IF r.ok THEN r.pages ELSE <<>>

\* @lru_cache(maxsize=100)
maxsize == 100

\* the position of base_url in the cache (a list of <<key, value>>, least recently
\* used first), 0 when it is not cached
CacheIndex(cache, base_url) ==
    IF \E k \in 1..Len(cache) : cache[k][1] = base_url
    THEN CHOOSE k \in 1..Len(cache) : cache[k][1] = base_url
    ELSE 0

\* the sequence s without its k-th element
RemoveAt(s, k) == SubSeq(s, 1, k - 1) \o SubSeq(s, k + 1, Len(s))

\* get_wa_framework_urls without its cache
get_wa_framework_urls_uncached(site, cache, base_url) ==
    [pages |-> FetchWaFrameworkUrls(site[base_url], base_url),
     cache |-> cache,
     fetched |-> <<base_url>>]

\* one call of the cached get_wa_framework_urls: the value returned, the cache
\* afterwards and the base URL fetched over the network, if any
get_wa_framework_urls(site, cache, base_url) ==
    LET k == CacheIndex(cache, base_url) IN
    IF k > 0
    THEN [pages |-> cache[k][2],
          cache |-> Append(RemoveAt(cache, k), cache[k]),
          fetched |-> <<>>]
    ELSE LET value == FetchWaFrameworkUrls(site[base_url], base_url)
             grown == Append(cache, <<base_url, value>>)
         IN [pages |-> value,
             cache |-> IF Len(grown) > maxsize THEN Tail(grown) ELSE grown,
             fetched |-> <<base_url>>]

\* url.rsplit('/', 1)[0]
RSplitSlash(url) ==
    LET slashes == {k \in 1..Len(url) : Char(url, k) = "/"} IN
    IF slashes = {} THEN url
    ELSE SubSeq(url, 1, (CHOOSE k \in slashes : \A m \in slashes : m <= k) - 1)

DocsHost == "https://docs.aws.amazon.com/wellarchitected/"

\* base_urls = set([url.rsplit('/', 1)[0] for url in available_urls if ... in url])
base_urls(available_urls) ==
    {RSplitSlash(available_urls[k]) :
        k \in {m \in 1..Len(available_urls) : Contains(available_urls[m], DocsHost)}}

\* the orders in which a set can be enumerated
Orders(S) ==
    {o \in [1..Cardinality(S) -> S] : \A a, b \in 1..Cardinality(S) : o[a] = o[b] => a = b}

RECURSIVE CollectPages(_, _, _)
\* sum([self.get_wa_framework_urls(base_url) for base_url in base_urls], []) with the
\* set enumerated in the given order
CollectPages(site, cache, order) ==
    IF Len(order) = 0 THEN [pages |-> <<>>, cache |-> cache, fetched |-> <<>>]
    ELSE LET first == get_wa_framework_urls(site, cache, order[1])
             rest == CollectPages(site, first.cache, Tail(order))
         IN [pages |-> first.pages \o rest.pages,
             cache |-> rest.cache,
             fetched |-> first.fetched \o rest.fetched]

\* text.lower().replace('-',' ').replace(' ','').replace('events', 'alerts')
Normalize(text) ==
    Replace(Replace(Replace(Lower(text), "-", " "), " ", ""), "events", "alerts")

\* the test of the matching loop: item_lower in title_lower
TitleMatches(item_lower, title_lower) == Contains(title_lower, item_lower)

RECURSIVE FirstMatch(_, _)
\* for title, url in wa_pages: ... return url; '' after the loop
FirstMatch(item_lower, wa_pages) ==
    IF Len(wa_pages) = 0 THEN ""
    ELSE IF TitleMatches(item_lower, Normalize(wa_pages[1][1])) THEN wa_pages[1][2]
    ELSE FirstMatch(item_lower, Tail(wa_pages))

\* match_improvement_item_to_url(item_text, available_urls), the base URLs
\* enumerated in the given order: the URL returned, the pages it was matched
\* against, the cache afterwards and the base URLs fetched
match_improvement_item_to_url(site, cache, item_text, order) ==
    LET got == CollectPages(site, cache, order) IN
    [url |-> IF Len(got.pages) = 0 THEN ""
             ELSE FirstMatch(Normalize(item_text), got.pages),
     wa_pages |-> got.pages,
     cache |-> got.cache,
     fetched |-> got.fetched]

(***************************************************************************)
(* The question/choice segmenter: what one line does to the state of the   *)
(* question being read.                                                    *)
(***************************************************************************)
\* None, for the variables that hold text
None == "None"

\* q_num = None
NoNumber == -1

\* any(x in line for x in words)
AnyIn(line, words) == \E k \in 1..Len(words) : Contains(line, words[k])

\* a test that ends the question text at the five section headers and at the
\* next question only
TextBreakAtSections(next_line) ==
    \/ \E k \in 1..5 :
          StartsWith(next_line,
                     <<"Selected choice(s)", "Not selected choice(s)",
                       "Best Practices marked as Not Applicable", "Notes",
                       "Improvement plan">>[k])
    \/ QuestionBoundary(next_line)

\* the test that ends the question-text loop
TextBreak(next_line) ==
    \/ \E k \in 1..8 :
          StartsWith(next_line,
                     <<"Selected", "Not selected", "Best Practices", "High risk",
                       "Medium risk", "Low risk", "No improvements", "Unanswered">>[k])
    \/ QuestionBoundary(next_line)

\* a fallback that looks for the cost keywords before the others
FallbackCostFirst(num, text, pillar) ==
    LET low == Lower(text) IN
    IF num <= 11 /\ pillar = None THEN "Operational Excellence"
    ELSE IF Contains(low, "financial management") \/ Contains(low, "cost")
    THEN "Cost Optimization"
    ELSE IF Contains(low, "securely operate") \/ Contains(low, "security")
    THEN "Security"
    ELSE IF Contains(low, "service quotas") \/ Contains(low, "network topology")
    THEN "Reliability"
    ELSE IF Contains(low, "appropriate cloud resources") \/ Contains(low, "compute resources")
    THEN "Performance Efficiency"
    ELSE IF Contains(low, "sustainability") THEN "Sustainability"
    ELSE pillar

\* the fallback of the pillar resolver, q_text already cleaned
FallbackPillar(num, text, pillar) ==
    LET low == Lower(text) IN
    IF num <= 11 /\ pillar = None THEN "Operational Excellence"
    ELSE IF Contains(low, "securely operate") \/ Contains(low, "security")
    THEN "Security"
    ELSE IF Contains(low, "service quotas") \/ Contains(low, "network topology")
    THEN "Reliability"
    ELSE IF Contains(low, "appropriate cloud resources") \/ Contains(low, "compute resources")
    THEN "Performance Efficiency"
    ELSE IF Contains(low, "financial management") \/ Contains(low, "cost")
    THEN "Cost Optimization"
    ELSE IF Contains(low, "select Regions") \/ Contains(low, "sustainability")
    THEN "Sustainability"
    ELSE pillar

\* a resolver that lets a pillar keyword of the text override the pass-1 lookup
ResolveKeywordFirst(map, num, text, pillar) ==
    IF FallbackPillar(12, text, None) # None
    THEN [pillar |-> FallbackPillar(12, text, None), proper |-> FALSE, abbrev |-> ""]
    ELSE IF composite_key(num, text) \in DOMAIN map
    THEN [pillar |-> map[composite_key(num, text)][1], proper |-> TRUE,
          abbrev |-> map[composite_key(num, text)][2]]
    ELSE [pillar |-> FallbackPillar(num, text, pillar), proper |-> FALSE, abbrev |-> ""]

\* the pillar of a question: the pass-1 lookup if it has the key, the fallback
\* otherwise; proper is used_proper_id, abbrev the abbreviation looked up
ResolvePillar(map, num, text, pillar) ==
    IF composite_key(num, text) \in DOMAIN map
    THEN [pillar |-> map[composite_key(num, text)][1], proper |-> TRUE,
          abbrev |-> map[composite_key(num, text)][2]]
    ELSE [pillar |-> FallbackPillar(num, text, pillar), proper |-> FALSE, abbrev |-> ""]

\* a risk level that keeps the first marker seen
RiskFirstWins(risk, next_line) ==
    IF risk # "" THEN risk
    ELSE IF Contains(next_line, "High risk") THEN "High Risk"
    ELSE IF Contains(next_line, "Medium risk") THEN "Medium Risk"
    ELSE IF Contains(next_line, "Low risk") THEN "Low Risk"
    ELSE risk

\* the risk level after a line of the block
RiskAfterLine(risk, next_line) ==
    IF Contains(next_line, "High risk") THEN "High Risk"
    ELSE IF Contains(next_line, "Medium risk") THEN "Medium Risk"
    ELSE IF Contains(next_line, "Low risk") THEN "Low Risk"
    ELSE IF Contains(next_line, "No improvements identified") THEN ""
    ELSE risk

\* the section after a line of the block
SectionAfterLine(sec, next_line) ==
    IF Contains(next_line, "Selected choice(s)") THEN "selected"
    ELSE IF Contains(next_line, "Not selected choice(s)") THEN "not_selected"
    ELSE IF Contains(next_line, "Best Practices marked as Not Applicable") THEN "na"
    ELSE IF Contains(next_line, "Notes") /\ Len(next_line) < 10 THEN "notes"
    ELSE IF Contains(next_line, "Improvement plan") THEN "improvement"
    ELSE sec

\* the line reaches the branch  elif next_line and len(next_line) > 5  and is not
\* one of the boilerplate lines passed over there
IsDataLine(next_line) ==
    /\ SectionAfterLine("", next_line) = ""
    /\ next_line # "-"
    /\ next_line # "Unanswered"
    /\ Len(next_line) > 5
    /\ ~ \/ Contains(next_line, "© 2025, Amazon Web Services")
         \/ (Contains(next_line, "Page") /\ Contains(next_line, "of"))
         \/ Contains(next_line, "Answer the question to view the improvement plan.")
         \/ Contains(next_line, "Ask an expert")

\* a filter without words
NoStopWords == <<>>

ChoiceStopWords == <<"Selected", "Not selected", "Best Practices", "Notes", "Improvement">>

NotesStopWords == <<"Selected", "Not selected", "Best Practices", "Improvement">>

\* a choice bucket after a line of the block; name is the section that fills it
BucketAfterLine(bucket, name, sec, next_line) ==
    IF IsDataLine(next_line) /\ sec = name /\ ~AnyIn(next_line, ChoiceStopWords)
    THEN Append(bucket, next_line)
    ELSE bucket

\* notes after a line of the block
NotesAfterLine(ns, sec, next_line) ==
    IF IsDataLine(next_line) /\ sec = "notes" /\ ~AnyIn(next_line, NotesStopWords)
    THEN Append(ns, next_line)
    ELSE ns

\* re.match(r'.*Page \d+ of \d+', s) at position k: the length matched, 0 for none
PageOfAt(s, k) ==
    LET n1 == DigitRun(s, k + Len("Page "))
        k2 == k + Len("Page ") + n1
        n2 == DigitRun(s, k2 + Len(" of "))
    IN IF /\ StartsWith(From(s, k), "Page ")
          /\ n1 >= 1
          /\ StartsWith(From(s, k2), " of ")
          /\ n2 >= 1
       THEN Len("Page ") + n1 + Len(" of ") + n2
       ELSE 0

\* r'© \d+, Amazon Web Services.*?All rights reserved\.' at position k: the length
\* matched, 0 for none
CopyrightAt(s, k) ==
    LET n == DigitRun(s, k + Len("© "))
        k2 == k + Len("© ") + n
        k3 == k2 + Len(", Amazon Web Services")
        f == Find(From(s, k3), "All rights reserved.")
    IN IF /\ StartsWith(From(s, k), "© ")
          /\ n >= 1
          /\ StartsWith(From(s, k2), ", Amazon Web Services")
          /\ f > 0
       THEN (k3 - k) + (f - 1) + Len("All rights reserved.")
       ELSE 0

\* improvement plans that take every line for a new item
PlansAlwaysNew(plans, sec, next_line) ==
    IF sec = "improvement" /\ Len(next_line) > 10 THEN Append(plans, next_line) ELSE plans

\* improvement_plans after a line of the block
PlansAfterLine(plans, sec, next_line) ==
    IF /\ IsDataLine(next_line)
       /\ sec = "improvement"
       /\ ~Contains(next_line, "Ask an expert")
       /\ ~Contains(next_line, "Answer the question to view")
       /\ ~Contains(next_line, "© 2025, Amazon Web Services")
       /\ ~ \E k \in 1..Len(next_line) : PageOfAt(next_line, k) > 0
       /\ ~Contains(next_line, "No risk detected for this question. No action needed")
       /\ Len(next_line) > 10
    THEN IF Char(next_line, 1) \in UpperCase \/ Len(plans) = 0
         THEN Append(plans, next_line)
         ELSE [plans EXCEPT ![Len(plans)] = @ \o " " \o next_line]
    ELSE plans

(***************************************************************************)
(* The segmenter: what the end of a question's block does.                 *)
(***************************************************************************)
NoneOfThese == "None of these"

\* any('None of these' not in choice for choice in choices)
HasOther(choices) == \E k \in 1..Len(choices) : ~Contains(choices[k], NoneOfThese)

\* filter_none_of_these(choices, other_choices_exist)
filter_none_of_these(choices, other_choices_exist) ==
    LET Keep(choice) == ~Contains(choice, NoneOfThese) IN
    IF other_choices_exist THEN SelectSeq(choices, Keep) ELSE choices

\* a bucket filtered as one choice bucket alone would decide it
FilterPerBucket(choices, sel, nsel, na) == filter_none_of_these(choices, HasOther(choices))

\* the bucket choices of the question whose three buckets are sel, nsel and na,
\* after  if has_other_selected or has_other_not_selected or has_other_na: ...
FilterBucket(choices, sel, nsel, na) ==
    IF HasOther(sel) \/ HasOther(nsel) \/ HasOther(na)
    THEN filter_none_of_these(choices, TRUE)
    ELSE choices

\* an id that takes the abbreviation looked up last, whatever the pillar
QuestionIdOfLastLookup(proper, abbrev, pillar, num) == abbrev \o "-" \o Pad2(num)

\* question_id
QuestionId(proper, abbrev, pillar, num) ==
    IF proper THEN abbrev \o "-" \o Pad2(num)
    ELSE pillar_abbrev_map(pillar) \o "-" \o Pad2(num)

RECURSIVE RemovePageOf(_)
\* re.sub(r'Page \d+ of \d+', '', s)
RemovePageOf(s) ==
    LET hits == {k \in 1..Len(s) : PageOfAt(s, k) > 0} IN
    IF hits = {} THEN s
    ELSE LET k == CHOOSE h \in hits : \A m \in hits : h <= m
         IN SubSeq(s, 1, k - 1) \o RemovePageOf(From(s, k + PageOfAt(s, k)))

RECURSIVE RemoveCopyright(_)
\* re.sub(r'© \d+, Amazon Web Services.*?All rights reserved\.', '', s)
RemoveCopyright(s) ==
    LET hits == {k \in 1..Len(s) : CopyrightAt(s, k) > 0} IN
    IF hits = {} THEN s
    ELSE LET k == CHOOSE h \in hits : \A m \in hits : h <= m
         IN SubSeq(s, 1, k - 1) \o RemoveCopyright(From(s, k + CopyrightAt(s, k)))

\* clean_plan
CleanPlan(plan) == Strip(RemovePageOf(RemoveCopyright(Replace(plan, "Ask an expert", ""))))

\* clean_improvement_plans
CleanPlans(plans) ==
    LET Keep(plan) == Len(plan) > 5 IN
    SelectSeq([k \in 1..Len(plans) |-> CleanPlan(plans[k])], Keep)

\* an overall risk that ignores the not-selected bucket
RiskAlways(risk, nsel) == risk

\* overall_risk = question_risk_level if not_selected_choices else ''
OverallRisk(risk, nsel) == IF Len(nsel) > 0 THEN risk ELSE ""

\* stats that take the not-selected count from the selected bucket
StatsMiscounted(sel, nsel, na) ==
    [selected |-> Len(sel), not_selected |-> Len(sel), na |-> Len(na)]

\* question_data['stats']
QuestionStats(sel, nsel, na) ==
    [selected |-> Len(sel), not_selected |-> Len(nsel), na |-> Len(na)]

\* the status strings, without their emoji
StatusSelected == "Selected"

StatusNotSelected == "Not Selected"

StatusNotApplicable == "Not Applicable"

\* question_data['choices'] before the placeholder
Choices(sel, nsel, na) ==
    [k \in 1..Len(sel) |-> [choice |-> sel[k], status |-> StatusSelected]]
      \o [k \in 1..Len(nsel) |-> [choice |-> nsel[k], status |-> StatusNotSelected]]
      \o [k \in 1..Len(na) |-> [choice |-> na[k], status |-> StatusNotApplicable]]

PlaceholderChoice ==
    [choice |-> "Assessment not completed - no choices identified",
     status |-> StatusNotSelected]

RECURSIVE MatchPlans(_, _, _, _)
\* for plan in clean_improvement_plans: matched_url = ...: the improvement items and
\* the cache afterwards
MatchPlans(site, cache, plans, order) ==
    IF Len(plans) = 0 THEN [items |-> <<>>, cache |-> cache]
    ELSE LET m == match_improvement_item_to_url(site, cache, plans[1], order)
             rest == MatchPlans(site, m.cache, Tail(plans), order)
         IN [items |-> <<[item |-> plans[1], url |-> m.url]>> \o rest.items,
             cache |-> rest.cache]

\* question_data as it is appended: sel, nsel and na are the filtered buckets
QuestionData(id, pillar, text, risk, ns, plans, sel, nsel, na, items) ==
    LET empty == Len(Choices(sel, nsel, na)) = 0 IN
    [question_id |-> id,
     pillar |-> pillar,
     question |-> text,
     risk_level |-> OverallRisk(risk, nsel),
     notes |-> Join("\n", ns),
     improvement_plan |-> Join("\n", plans),
     choices |-> IF empty THEN <<PlaceholderChoice>> ELSE Choices(sel, nsel, na),
     stats |-> IF empty THEN [selected |-> 0, not_selected |-> 1, na |-> 0]
               ELSE QuestionStats(sel, nsel, na),
     improvement_items |-> items]

\* a pillar list that takes every question, whatever its pillar
AppendAnywhere(lists, pillar, question_data) ==
    [lists EXCEPT !["Operational Excellence"] = Append(@, question_data)]

\* if current_pillar: pillars[current_pillar].append(question_data)
AppendToPillar(lists, pillar, question_data) ==
    IF pillar # None THEN [lists EXCEPT ![pillar] = Append(@, question_data)]
    ELSE lists

(***************************************************************************)
(* The property-block parser.  workload_props is a dict: here the list of  *)
(* its <<key, value>> items in insertion order.                            *)
(***************************************************************************)
PropertyLabels ==
    {"Workload name", "ARN", "Description", "Review owner", "Industry type", "Industry",
     "Environment", "AWS Regions", "Non-AWS regions", "Account IDs",
     "Architectural design"}

\* reader.pages[:5]
FirstPages == 5

\* a test that takes only the copyright mark for noise
NoiseCopyrightOnly(line) == Contains(line, "©")

\* '©' in line or 'Page ' in line
IsNoise(line) == Contains(line, "©") \/ Contains(line, "Page ")

\* [line.strip() for line in text.split('\n') if line.strip()]
StrippedLines(page) ==
    LET NotEmpty(line) == line # "" IN
    SelectSeq([k \in 1..Len(page) |-> Strip(page[k])], NotEmpty)

\* key in d
DictHas(d, key) == \E k \in 1..Len(d) : d[k][1] = key

\* d[key], for a key of d
DictGet(d, key) == d[CHOOSE k \in 1..Len(d) : d[k][1] = key][2]

\* d[key] = value: a new key goes last, an old one keeps its place
DictSet(d, key, value) ==
    IF DictHas(d, key)
    THEN [k \in 1..Len(d) |-> IF d[k][1] = key THEN <<key, value>> ELSE d[k]]
    ELSE Append(d, <<key, value>>)

RECURSIVE ContinuationEnd(_, _, _)
\* k after  while k < len(lines) and not lines[k] in stops: k += 1
ContinuationEnd(ls, k, stops) ==
    IF k <= Len(ls) /\ ls[k] \notin stops THEN ContinuationEnd(ls, k + 1, stops) ELSE k

\* the parts of a multi-line value that starts at line k and ends before line e
ContinuationParts(ls, k, e) ==
    LET NotNoise(line) == ~IsNoise(line) IN
    <<ls[k]>> \o SelectSeq(SubSeq(ls, k + 1, e - 1), NotNoise)

\* k after the loop that combines the ARN parts, the value starting at line k
ArnEnd(ls, k) == ContinuationEnd(ls, k + 1, {"Description", "Review owner"})

\* an ARN joined with spaces
ArnJoinedWithSpaces(ls, k) == Join(" ", ContinuationParts(ls, k, ArnEnd(ls, k)))

\* ''.join(arn_parts)
ArnValue(ls, k) == Join("", ContinuationParts(ls, k, ArnEnd(ls, k)))

\* k after the loop that combines the description parts
DescriptionEnd(ls, k) == ContinuationEnd(ls, k + 1, {"Review owner", "Industry type"})

\* ' '.join(desc_parts)
DescriptionValue(ls, k) == Join(" ", ContinuationParts(ls, k, DescriptionEnd(ls, k)))

\* re.search(r':(\d{12}):', arn): the position of the match, 0 for none
AccountIdAt(arn) ==
    LET hits == {k \in 1..Len(arn) : /\ Char(arn, k) = ":"
                                     /\ DigitRun(arn, k + 1) = 12
                                     /\ Len(arn) >= k + 13
                                     /\ Char(arn, k + 13) = ":"}
    IN IF hits = {} THEN 0 ELSE CHOOSE h \in hits : \A m \in hits : h <= m

\* a fallback that fills in Account IDs only when the key is missing
AccountIdOnlyWhenMissing(props) ==
    IF /\ ~DictHas(props, "Account IDs")
       /\ DictHas(props, "ARN")
       /\ AccountIdAt(DictGet(props, "ARN")) > 0
    THEN LET arn == DictGet(props, "ARN")
             k == AccountIdAt(arn)
         IN DictSet(props, "Account IDs", SubSeq(arn, k + 1, k + 12))
    ELSE props

\* the Account IDs fallback
AccountIdFallback(props) ==
    IF /\ (~DictHas(props, "Account IDs") \/ DictGet(props, "Account IDs") = "-")
       /\ DictHas(props, "ARN")
       /\ AccountIdAt(DictGet(props, "ARN")) > 0
    THEN LET arn == DictGet(props, "ARN")
             k == AccountIdAt(arn)
         IN DictSet(props, "Account IDs", SubSeq(arn, k + 1, k + 12))
    ELSE props

\* r'\d{1,2}/\d{1,2}/\d{4}' at position k: the length matched, 0 for none
DateAt(s, k) ==
    LET n1 == DigitRun(s, k)
        n2 == DigitRun(s, k + n1 + 1)
        n3 == DigitRun(s, k + n1 + n2 + 2)
    IN IF /\ n1 \in {1, 2}
          /\ k + n1 <= Len(s)
          /\ Char(s, k + n1) = "/"
          /\ n2 \in {1, 2}
          /\ k + n1 + n2 + 1 <= Len(s)
          /\ Char(s, k + n1 + n2 + 1) = "/"
          /\ n3 >= 4
       THEN n1 + n2 + 6
       ELSE 0

\* the position of the first date of s, 0 for none
FirstDateAt(s) ==
    LET hits == {k \in 1..Len(s) : DateAt(s, k) > 0} IN
    IF hits = {} THEN 0 ELSE CHOOSE h \in hits : \A m \in hits : h <= m

RECURSIVE RemoveDates(_)
\* re.sub(r'\d{1,2}/\d{1,2}/\d{4}', '', s)
RemoveDates(s) ==
    LET k == FirstDateAt(s) IN
    IF k = 0 THEN s
    ELSE SubSeq(s, 1, k - 1) \o RemoveDates(From(s, k + DateAt(s, k)))

\* a promotion that copies the date and leaves the value it came from alone
DatePromotionCopyOnly(props) ==
    LET dated == {k \in 1..Len(props) : FirstDateAt(props[k][2]) > 0} IN
    IF DictHas(props, "Date") \/ dated = {} THEN props
    ELSE LET k == CHOOSE h \in dated : \A m \in dated : h <= m
             value == props[k][2]
             at == FirstDateAt(value)
         IN DictSet(props, "Date", SubSeq(value, at, at + DateAt(value, at) - 1))

\* the promotion of the first date found in a value to the Date property
DatePromotion(props) ==
    LET dated == {k \in 1..Len(props) : FirstDateAt(props[k][2]) > 0} IN
    IF DictHas(props, "Date") \/ dated = {} THEN props
    ELSE LET k == CHOOSE h \in dated : \A m \in dated : h <= m
             value == props[k][2]
             at == FirstDateAt(value)
             cleaned == Strip(RemoveDates(value))
         IN DictSet(DictSet(props, "Date", SubSeq(value, at, at + DateAt(value, at) - 1)),
                    props[k][1],
                    IF cleaned = "" THEN "Application" ELSE cleaned)

(***************************************************************************)
(* extract_hyperlinks_from_pdf.  A page is a record [readable, annots]:    *)
(* readable = FALSE is a page whose /Annots cannot be read; an annotation  *)
(* is a record [kind, uri] of kind "uri" (an /A with a /URI), "other" (no  *)
(* /A or no /URI) or "raises" (get_object or the lookups raise).           *)
(***************************************************************************)
RECURSIVE UrisUntilFailure(_)
\* the URIs of the annotations that stand before the first one that raises
UrisUntilFailure(annots) ==
    IF Len(annots) = 0 \/ annots[1].kind = "raises" THEN <<>>
    ELSE (IF annots[1].kind = "uri" THEN <<annots[1].uri>> ELSE <<>>)
           \o UrisUntilFailure(Tail(annots))

RECURSIVE AnnotationUris(_)
\* the loop over the annotations of a page: the URIs appended
AnnotationUris(annots) ==
    IF Len(annots) = 0 THEN <<>>
    ELSE (IF annots[1].kind = "uri" THEN <<annots[1].uri>> ELSE <<>>)
           \o AnnotationUris(Tail(annots))

\* hyperlinks_by_page[page_num] after the page is processed
PageHyperlinks(page) == IF page.readable THEN AnnotationUris(page.annots) ELSE <<>>

\* a readable page whose annotations are links to the given URIs
AnnotatedWith(uris) ==
    [readable |-> TRUE,
     annots |-> [k \in 1..Len(uris) |-> [kind |-> "uri", uri |-> uris[k]]]]

(***************************************************************************)
(* The API data source: convert_api_to_standard_format.  An answer summary *)
(* and an answer detail are records of the service; a key the service left *)
(* out is a field the record does not have.                                *)
(***************************************************************************)
\* d.get(key, default)
Get(d, key, default) == IF key \in DOMAIN d THEN d[key] ELSE default

\* a source that hands on the risk of the service as it is
RiskUnmapped(risk) == risk

\* risk_mapping.get(risk, 'Not Assessed')
risk_mapping(risk) ==
    CASE risk = "HIGH" -> "High Risk"
      [] risk = "MEDIUM" -> "Medium Risk"
      [] risk = "LOW" -> "Low Risk"
      [] risk = "UNANSWERED" -> "Not Assessed"
      [] risk = "NOT_APPLICABLE" -> "Not Applicable"
      [] OTHER -> "Not Assessed"

\* choice['ChoiceId'] in selected_choices
IsSelected(choice, selected) == \E k \in 1..Len(selected) : selected[k] = choice.ChoiceId

\* the entries of question_data['choices']
ApiChoices(detail) ==
    LET choices == Get(detail, "Choices", <<>>)
        selected == Get(detail, "SelectedChoices", <<>>)
    IN [k \in 1..Len(choices) |->
          [choice_id |-> choices[k].ChoiceId,
           choice |-> choices[k].Title,
           title |-> choices[k].Title,
           description |-> Get(choices[k], "Description", ""),
           status |-> IF IsSelected(choices[k], selected) THEN StatusSelected
                      ELSE StatusNotSelected]]

\* the unselected choices that become improvement items
ApiImprovements(answer, detail) ==
    LET choices == Get(detail, "Choices", <<>>)
        selected == Get(detail, "SelectedChoices", <<>>)
        Improves(choice) ==
            /\ ~IsSelected(choice, selected)
            /\ choice.ChoiceId # answer.QuestionId \o "_no"
            /\ ~Contains(choice.Title, "None of these")
    IN SelectSeq(choices, Improves)

\* statistics that take every listed choice for a selected one
StatsAllSelected(detail) ==
    [selected |-> Len(Get(detail, "Choices", <<>>)), not_selected |-> 0, na |-> 0]

\* selected_count, not_selected_count and the 'stats' of question_data
ApiStats(detail) ==
    LET selected_count == Len(Get(detail, "SelectedChoices", <<>>))
        total_choices == Len(Get(detail, "Choices", <<>>))
    IN [selected |-> selected_count,
        not_selected |-> total_choices - selected_count,
        na |-> 0]

\* pillar = answer['PillarId']
ApiPillar(answer) == answer.PillarId

\* question_data of one answer
ApiQuestionData(answer, detail) ==
    LET improvements == ApiImprovements(answer, detail) IN
    [question_id |-> answer.QuestionId,
     question |-> detail.QuestionTitle,
     question_title |-> detail.QuestionTitle,
     question_description |-> Get(detail, "QuestionDescription", ""),
     pillar |-> ApiPillar(answer),
     risk_level |-> risk_mapping(Get(answer, "Risk", "UNANSWERED")),
     notes |-> Get(detail, "Notes", ""),
     improvement_plan |-> Join("\n", [k \in 1..Len(improvements) |-> improvements[k].Title]),
     choices |-> ApiChoices(detail),
     stats |-> ApiStats(detail),
     improvement_items |->
        [k \in 1..Len(improvements) |->
            [item |-> improvements[k].Title,
             url |-> Get(detail, "ImprovementPlanUrl", "")]]]

\* pillars[pillar].append(question_data), on a defaultdict(list)
DefaultAppend(lists, pillar, question_data) ==
    [key \in DOMAIN lists \cup {pillar} |->
        IF key = pillar
        THEN Append(IF key \in DOMAIN lists THEN lists[key] ELSE <<>>, question_data)
        ELSE lists[key]]

\* workload_properties of the workload the service returned
ApiWorkloadProperties(workload) ==
    [name \in {"Workload name", "ARN", "Description", "Review owner", "Environment",
               "AWS Regions", "Account IDs"} |->
        CASE name = "Workload name" -> workload.WorkloadName
          [] name = "ARN" -> workload.WorkloadArn
          [] name = "Description" -> Get(workload, "Description", "")
          [] name = "Review owner" -> Get(workload, "Owner", "")
          [] name = "Environment" -> Get(workload, "Environment", "")
          [] name = "AWS Regions" -> Join(", ", Get(workload, "AwsRegions", <<>>))
          [] name = "Account IDs" -> Join(", ", Get(workload, "AccountIds", <<>>))]

(***************************************************************************)
(* State.                                                                  *)
(***************************************************************************)
VARIABLES
    pages,                 \* reader.pages: the lines text.split('\n') gives per page
    hyperlinks_by_page,    \* the result of extract_hyperlinks_from_pdf
    annotations,           \* reader.pages: the link annotations of each page
    link_page,             \* the page extract_hyperlinks_from_pdf is on
    toc_site,              \* the documentation site: base URL -> its toc-contents.json
    wa_cache,              \* the lru_cache of get_wa_framework_urls
    pc,                    \* where the program is
    question_pillar_map,   \* pass 1's lookup
    page_num, i, j,        \* pass 2's page and line cursors
    q_num, q_text, used_proper_id, current_pillar, pillar_abbrev,
    section, selected_choices, not_selected_choices, na_choices,
    improvement_plans, notes, question_risk_level,
    pillars,               \* the mapping extract_improvement_plan_with_smart_urls returns
    block_start,           \* history: j when the block loop of the question began
    log,                   \* history: one record per question_data built
    workload_props,        \* the dict extract_workload_properties builds
    prop_page, prop_j,     \* its page and line cursors
    current_property,
    item_text, available_urls,   \* the arguments of the last matcher call
    wa_pages, matched_url,       \* the pages it gathered and the URL it returned
    last_base_url,         \* the argument of the last get_wa_framework_urls call
    fetched,               \* history: the base URLs fetched over the network
    calls,                 \* history: the number of matcher calls
    api_answered,          \* the number of answers convert_api_to_standard_format
                           \* has gone through
    api_pillars,           \* its defaultdict pillars
    api_record,            \* the record it returns
    api_log                \* history: the answers gone through and their details

envVars == <<pages, hyperlinks_by_page, toc_site>>

linkVars == <<annotations, link_page>>

cursorVars == <<page_num, i, j>>

questionVars == <<q_num, q_text, used_proper_id, current_pillar, pillar_abbrev>>

blockVars == <<section, selected_choices, not_selected_choices, na_choices,
               improvement_plans, notes, question_risk_level>>

segVars == <<question_pillar_map, cursorVars, questionVars, blockVars,
             pillars, block_start, log>>

propVars == <<workload_props, prop_page, prop_j, current_property>>

matchVars == <<item_text, available_urls, wa_pages, matched_url, last_base_url, fetched,
              calls>>

apiVars == <<api_answered, api_pillars, api_record, api_log>>

vars == <<envVars, linkVars, wa_cache, pc, segVars, propVars, matchVars, apiVars>>

\* lines = text.split('\n') of the page pass 2 is on
lines == pages[page_num]

EmptyPillars == [name \in {PillarNames[k] : k \in 1..6} |-> <<>>]

(***************************************************************************)
(* extract_improvement_plan_with_smart_urls.                               *)
(***************************************************************************)
\* PASS 1, and the start of pass 2
Pass1 ==
    /\ pc = "pass1"
    /\ question_pillar_map' = Pass1Pages(<<>>, pages)
    /\ current_pillar' = None
    /\ page_num' = 1
    /\ i' = 1
    /\ pc' = "scan"
    /\ UNCHANGED <<apiVars, linkVars, propVars, matchVars, envVars, wa_cache, j, q_num, q_text,
                   used_proper_id, pillar_abbrev, blockVars, pillars, block_start,
                   log>>

\* an iteration on a line that starts no question which leaves the cursor where
\* it is
ScanLineStays ==
    /\ pc = "scan"
    /\ i <= Len(lines)
    /\ ~QuestionMatch(Strip(lines[i]))
    /\ q_num' = NoNumber
    /\ q_text' = None
    /\ j' = i + 1
    /\ used_proper_id' = FALSE
    /\ UNCHANGED <<apiVars, linkVars, propVars, matchVars, envVars, pc, wa_cache,
                   question_pillar_map, page_num, i, current_pillar, pillar_abbrev,
                   blockVars, pillars, block_start, log>>

\* an iteration of  while i < len(lines)  on a line that starts no question
ScanLine ==
    /\ pc = "scan"
    /\ i <= Len(lines)
    /\ ~QuestionMatch(Strip(lines[i]))
    /\ q_num' = NoNumber
    /\ q_text' = None
    /\ j' = i + 1
    /\ used_proper_id' = FALSE
    /\ i' = i + 1
    /\ UNCHANGED <<apiVars, linkVars, propVars, matchVars, envVars, pc, wa_cache,
                   question_pillar_map, page_num, current_pillar, pillar_abbrev,
                   blockVars, pillars, block_start, log>>

\* an iteration of  while i < len(lines)  on a line that matches the question pattern
QuestionStart ==
    /\ pc = "scan"
    /\ i <= Len(lines)
    /\ QuestionMatch(Strip(lines[i]))
    /\ q_num' = QuestionNum(Strip(lines[i]))
    /\ q_text' = QuestionText(Strip(lines[i]))
    /\ j' = i + 1
    /\ used_proper_id' = FALSE
    /\ pc' = "qtext"
    /\ UNCHANGED <<apiVars, linkVars, propVars, matchVars, envVars, wa_cache,
                   question_pillar_map, page_num, i, current_pillar, pillar_abbrev,
                   blockVars, pillars, block_start, log>>

\* an iteration of the loop that reads a question spanning several lines
QuestionTextLine ==
    /\ pc = "qtext"
    /\ j <= Len(lines)
    /\ ~TextBreak(Strip(lines[j]))
    /\ q_text' = LET next_line == Strip(lines[j]) IN
                 IF Len(next_line) > 3 /\ next_line # "Unanswered"
                 THEN q_text \o " " \o next_line
                 ELSE q_text
    /\ j' = j + 1
    /\ UNCHANGED <<apiVars, linkVars, propVars, matchVars, envVars, pc, wa_cache,
                   question_pillar_map, page_num, i, q_num, used_proper_id,
                   current_pillar, pillar_abbrev, blockVars, pillars, block_start,
                   log>>

\* an end of that loop that keeps the section state, the buckets and the risk level
\* of the question before
AssignPillarKeepsBlock ==
    /\ pc = "qtext"
    /\ IF j > Len(lines) THEN TRUE ELSE TextBreak(Strip(lines[j]))
    /\ LET text == CleanQuestionText(q_text)
           resolved == ResolvePillar(question_pillar_map, q_num, text, current_pillar)
       IN /\ q_text' = text
          /\ current_pillar' = resolved.pillar
          /\ used_proper_id' = resolved.proper
          /\ pillar_abbrev' = IF resolved.proper THEN resolved.abbrev ELSE pillar_abbrev
    /\ block_start' = j
    /\ pc' = "block"
    /\ UNCHANGED <<apiVars, linkVars, propVars, matchVars, envVars, wa_cache,
                   question_pillar_map, cursorVars, q_num, blockVars, pillars, log>>

\* the end of that loop: the text is cleaned, the pillar resolved and the buckets
\* of the question initialised
AssignPillar ==
    /\ pc = "qtext"
    /\ IF j > Len(lines) THEN TRUE ELSE TextBreak(Strip(lines[j]))
    /\ LET text == CleanQuestionText(q_text)
           resolved == ResolvePillar(question_pillar_map, q_num, text, current_pillar)
       IN /\ q_text' = text
          /\ current_pillar' = resolved.pillar
          /\ used_proper_id' = resolved.proper
          /\ pillar_abbrev' = IF resolved.proper THEN resolved.abbrev ELSE pillar_abbrev
    /\ selected_choices' = <<>>
    /\ not_selected_choices' = <<>>
    /\ na_choices' = <<>>
    /\ improvement_plans' = <<>>
    /\ notes' = <<>>
    /\ question_risk_level' = ""
    /\ section' = "none"
    /\ block_start' = j
    /\ pc' = "block"
    /\ UNCHANGED <<apiVars, linkVars, propVars, matchVars, envVars, wa_cache,
                   question_pillar_map, cursorVars, q_num, pillars, log>>

\* an iteration of the loop over the lines that follow the question
BlockLine ==
    /\ pc = "block"
    /\ j <= Len(lines)
    /\ ~QuestionBoundary(Strip(lines[j]))
    /\ LET next_line == Strip(lines[j]) IN
       /\ question_risk_level' = RiskAfterLine(question_risk_level, next_line)
       /\ section' = SectionAfterLine(section, next_line)
       /\ selected_choices' =
            BucketAfterLine(selected_choices, "selected", section, next_line)
       /\ not_selected_choices' =
            BucketAfterLine(not_selected_choices, "not_selected", section, next_line)
       /\ na_choices' = BucketAfterLine(na_choices, "na", section, next_line)
       /\ notes' = NotesAfterLine(notes, section, next_line)
       /\ improvement_plans' = PlansAfterLine(improvement_plans, section, next_line)
    /\ j' = j + 1
    /\ UNCHANGED <<apiVars, linkVars, propVars, matchVars, envVars, pc, wa_cache,
                   question_pillar_map, page_num, i, questionVars, pillars,
                   block_start, log>>

\* the end of the block: the question is built and added to its pillar
Finalize ==
    /\ pc = "block"
    /\ IF j > Len(lines) THEN TRUE ELSE QuestionBoundary(Strip(lines[j]))
    /\ \E order \in Orders(base_urls(hyperlinks_by_page[page_num])) :
        LET sel == FilterBucket(selected_choices, selected_choices,
                                not_selected_choices, na_choices)
            nsel == FilterBucket(not_selected_choices, selected_choices,
                                 not_selected_choices, na_choices)
            na == FilterBucket(na_choices, selected_choices,
                               not_selected_choices, na_choices)
            plans == CleanPlans(improvement_plans)
            matched == MatchPlans(toc_site, wa_cache, plans,
                                  [k \in 1..Len(order) |-> order[k]])
            question_data ==
                QuestionData(QuestionId(used_proper_id, pillar_abbrev, current_pillar, q_num),
                             current_pillar, q_text, question_risk_level, notes, plans,
                             sel, nsel, na, matched.items)
        IN /\ selected_choices' = sel
           /\ not_selected_choices' = nsel
           /\ na_choices' = na
           /\ wa_cache' = matched.cache
           /\ pillars' = AppendToPillar(pillars, current_pillar, question_data)
           /\ log' = Append(log, [page |-> page_num,
                                  start |-> i,
                                  block_start |-> block_start,
                                  block_end |-> j,
                                  proper |-> used_proper_id,
                                  raw_selected |-> selected_choices,
                                  raw_not_selected |-> not_selected_choices,
                                  raw_na |-> na_choices,
                                  selected |-> sel,
                                  not_selected |-> nsel,
                                  na |-> na,
                                  detected_risk |-> question_risk_level,
                                  q |-> question_data])
    /\ i' = j
    /\ pc' = "scan"
    /\ UNCHANGED <<apiVars, linkVars, propVars, matchVars, envVars, question_pillar_map,
                   page_num, j, questionVars, section, improvement_plans, notes,
                   question_risk_level, block_start>>

\* the end of a page's lines, another page following
NextPage ==
    /\ pc = "scan"
    /\ i > Len(lines)
    /\ page_num < Len(pages)
    /\ page_num' = page_num + 1
    /\ i' = 1
    /\ UNCHANGED <<apiVars, linkVars, propVars, matchVars, envVars, pc, wa_cache,
                   question_pillar_map, j, questionVars, blockVars, pillars,
                   block_start, log>>

\* return pillars
Return ==
    /\ pc = "scan"
    /\ i > Len(lines)
    /\ page_num = Len(pages)
    /\ pc' = "done"
    /\ UNCHANGED <<apiVars, linkVars, propVars, matchVars, envVars, wa_cache, segVars>>

NextSeg ==
    \/ Pass1
    \/ ScanLine
    \/ QuestionStart
    \/ QuestionTextLine
    \/ AssignPillar
    \/ BlockLine
    \/ Finalize
    \/ NextPage
    \/ Return

(***************************************************************************)
(* extract_workload_properties                                             *)
(***************************************************************************)
\* the lines of the page the property parser is on
prop_lines == StrippedLines(pages[prop_page])

\* a parser that looks at every page of the document
EveryPage == Len(pages)

\* the pages the property parser looks at
LastPropPage == IF Len(pages) < FirstPages THEN Len(pages) ELSE FirstPages

\* one pass of the loop over the lines that follow the header, on a line that does
\* not end it: the dict, the current label and the cursor afterwards
PropsAfterLine(props, label, ls, at) ==
    LET line == ls[at] IN
    IF line \in PropertyLabels
    THEN [props |-> props, label |-> line, j |-> at + 1]
    ELSE IF label # None /\ line # "-"
    THEN IF label = "ARN"
         THEN [props |-> DictSet(props, label, ArnValue(ls, at)),
               label |-> None, j |-> ArnEnd(ls, at)]
         ELSE IF label = "Description"
         THEN [props |-> DictSet(props, label, DescriptionValue(ls, at)),
               label |-> None, j |-> DescriptionEnd(ls, at)]
         ELSE [props |-> DictSet(props, label, line), label |-> None, j |-> at + 1]
    ELSE IF label # None /\ line = "-"
    THEN [props |-> IF label \in {"Non-AWS regions", "Account IDs"}
                    THEN DictSet(props, label, "-")
                    ELSE props,
          label |-> None, j |-> at + 1]
    ELSE [props |-> props, label |-> label, j |-> at + 1]

\* a page without the header line
PropsSkipPage ==
    /\ pc = "props"
    /\ prop_page <= LastPropPage
    /\ \A k \in 1..Len(prop_lines) : prop_lines[k] # "Workload properties"
    /\ prop_page' = prop_page + 1
    /\ UNCHANGED <<apiVars, linkVars, workload_props, prop_j, current_property, pc, matchVars,
                   envVars, wa_cache, segVars>>

\* the first header line of a page: the properties that follow are processed
PropsHeader ==
    /\ pc = "props"
    /\ prop_page <= LastPropPage
    /\ \E k \in 1..Len(prop_lines) :
          /\ prop_lines[k] = "Workload properties"
          /\ \A m \in 1..(k - 1) : prop_lines[m] # "Workload properties"
          /\ prop_j' = k + 1
    /\ current_property' = None
    /\ pc' = "props_block"
    /\ UNCHANGED <<apiVars, linkVars, workload_props, prop_page, matchVars, envVars, wa_cache,
                   segVars>>

\* one line of the property block
PropsLine ==
    /\ pc = "props_block"
    /\ prop_j <= Len(prop_lines)
    /\ ~IsNoise(prop_lines[prop_j])
    /\ LET after == PropsAfterLine(workload_props, current_property, prop_lines, prop_j)
       IN /\ workload_props' = after.props
          /\ current_property' = after.label
          /\ prop_j' = after.j
    /\ UNCHANGED <<apiVars, linkVars, prop_page, pc, matchVars, envVars, wa_cache, segVars>>

\* the end of the block, at the end of the page or at a copyright or page line: the
\* defaults are filled in and the dict is returned
PropsReturn ==
    /\ pc = "props_block"
    /\ IF prop_j > Len(prop_lines) THEN TRUE ELSE IsNoise(prop_lines[prop_j])
    /\ workload_props' = DatePromotion(AccountIdFallback(workload_props))
    /\ pc' = "props_done"
    /\ UNCHANGED <<apiVars, linkVars, prop_page, prop_j, current_property, matchVars, envVars,
                   wa_cache, segVars>>

\* no header on the pages looked at: the empty dict is returned
PropsNoHeader ==
    /\ pc = "props"
    /\ prop_page > LastPropPage
    /\ pc' = "props_done"
    /\ UNCHANGED <<apiVars, linkVars, propVars, matchVars, envVars, wa_cache, segVars>>

NextProps ==
    \/ PropsSkipPage
    \/ PropsHeader
    \/ PropsLine
    \/ PropsReturn
    \/ PropsNoHeader

ItemTexts ==
    {"identify-events", "Identify alerts and respond", "identify", "Rotate keys"}

UrlLists ==
    {<<>>,
     <<"https://docs.aws.amazon.com/wellarchitected/a/sec.html">>,
     <<"https://docs.aws.amazon.com/wellarchitected/b/ops.html",
       "https://docs.aws.amazon.com/wellarchitected/a/sec.html">>,
     <<"https://aws.amazon.com/architecture/well-architected">>}

MaxCalls == 3

\* one call of match_improvement_item_to_url
MatchCall ==
    /\ pc = "match"
    /\ calls < MaxCalls
    /\ \E item \in ItemTexts, urls \in UrlLists :
          \E order \in Orders(base_urls(urls)) :
             LET got == match_improvement_item_to_url(toc_site, wa_cache, item, order)
             IN /\ item_text' = item
                /\ available_urls' = urls
                /\ wa_pages' = got.wa_pages
                /\ matched_url' = got.url
                /\ wa_cache' = got.cache
                /\ fetched' = fetched \o got.fetched
    /\ calls' = calls + 1
    /\ UNCHANGED <<apiVars, linkVars, pages, hyperlinks_by_page, toc_site, pc, last_base_url,
                   propVars, segVars>>

NextMatch == MatchCall

\* one call of get_wa_framework_urls
GetUrlsCall ==
    /\ pc = "match"
    /\ calls < MaxCalls
    /\ \E base \in DOMAIN toc_site :
          LET got == get_wa_framework_urls(toc_site, wa_cache, base)
          IN /\ last_base_url' = base
             /\ wa_pages' = got.pages
             /\ wa_cache' = got.cache
             /\ fetched' = fetched \o got.fetched
    /\ calls' = calls + 1
    /\ UNCHANGED <<apiVars, linkVars, pages, hyperlinks_by_page, toc_site, pc, item_text,
                   available_urls, matched_url, propVars, segVars>>

NextFetch ==
    \/ MatchCall
    \/ GetUrlsCall

(***************************************************************************)
(* extract_hyperlinks_from_pdf                                             *)
(***************************************************************************)
\* one page: its key is set, then its annotations are read
HyperlinksPage ==
    /\ pc = "links"
    /\ link_page <= Len(annotations)
    /\ hyperlinks_by_page'
          = Append(hyperlinks_by_page, PageHyperlinks(annotations[link_page]))
    /\ link_page' = link_page + 1
    /\ UNCHANGED <<pages, annotations, toc_site, wa_cache, pc, segVars, propVars,
                   matchVars, apiVars>>

\* return hyperlinks_by_page, to the extraction of the improvement plan
HyperlinksReturn ==
    /\ pc = "links"
    /\ link_page > Len(annotations)
    /\ pc' = "pass1"
    /\ UNCHANGED <<envVars, linkVars, wa_cache, segVars, propVars, matchVars, apiVars>>

NextHyperlinks ==
    \/ HyperlinksPage
    \/ HyperlinksReturn

(***************************************************************************)
(* Documents.                                                              *)
(***************************************************************************)
\* the sequences of at most n elements of S
RECURSIVE SeqsUpTo(_, _)
SeqsUpTo(S, n) ==
    IF n = 0 THEN {<<>>}
    ELSE LET shorter == SeqsUpTo(S, n - 1) IN
         shorter \cup {Append(t, x) : t \in {u \in shorter : Len(u) = n - 1}, x \in S}

\* the end of a page in a stream of lines
PageBreak == "\f"

RECURSIVE SplitPages(_)
\* the pages of a stream of lines: a page without text is the one line ''
SplitPages(stream) ==
    LET breaks == {k \in 1..Len(stream) : stream[k] = PageBreak} IN
    IF breaks = {} THEN <<IF Len(stream) = 0 THEN <<"">> ELSE stream>>
    ELSE LET k == CHOOSE b \in breaks : \A m \in breaks : b <= m
         IN <<IF k = 1 THEN <<"">> ELSE SubSeq(stream, 1, k - 1)>>
              \o SplitPages(SubSeq(stream, k + 1, Len(stream)))

\* the documents that begin with one of the given line sequences and go on with at
\* most n lines or page breaks taken from the given lines
Documents(beginnings, given, n) ==
    {SplitPages(b \o t) : b \in beginnings, t \in SeqsUpTo(given \cup {PageBreak}, n)}

\* the number of lines a document goes on for after its beginning
MaxTail == 3

\* the documentation site the model fetches from
SiteBase == "https://docs.aws.amazon.com/wellarchitected/a"

SiteBaseB == "https://docs.aws.amazon.com/wellarchitected/b"

\* what toc-contents.json answers under each base URL
Site ==
    [b \in {SiteBase, SiteBaseB} |->
        IF b = SiteBase
        THEN [ok |-> TRUE,
              contents |-> <<[title |-> "Detect", href |-> "d.html",
                              contents |-> <<[title |-> "Identify Alerts",
                                              href |-> "ia.html"],
                                             [title |-> "Identify Events and Alerts",
                                              href |-> "iea.html"]>>]>>]
        ELSE [ok |-> TRUE,
              contents |-> <<[title |-> "Identify Alerts", href |-> "alerts.html"]>>]]

\* the locals of the functions before they run, one of the given sites answering
\* the table-of-contents requests
InitLocals(place, sites) ==
    /\ toc_site \in sites
    /\ wa_cache = <<>>
    /\ pc = place
    /\ question_pillar_map = <<>>
    /\ page_num = 1
    /\ i = 1
    /\ j = 1
    /\ q_num = NoNumber
    /\ q_text = None
    /\ used_proper_id = FALSE
    /\ current_pillar = None
    /\ pillar_abbrev = ""
    /\ section = "none"
    /\ selected_choices = <<>>
    /\ not_selected_choices = <<>>
    /\ na_choices = <<>>
    /\ improvement_plans = <<>>
    /\ notes = <<>>
    /\ question_risk_level = ""
    /\ pillars = EmptyPillars
    /\ block_start = 1
    /\ log = <<>>
    /\ workload_props = <<>>
    /\ prop_page = 1
    /\ prop_j = 1
    /\ current_property = None
    /\ item_text = ""
    /\ available_urls = <<>>
    /\ wa_pages = <<>>
    /\ matched_url = ""
    /\ last_base_url = ""
    /\ fetched = <<>>
    /\ calls = 0
    /\ api_answered = 0
    /\ api_pillars = <<>>
    /\ api_record = None
    /\ api_log = <<>>

\* the state in which the program starts at the given place on one of the documents,
\* every page of it carrying one of the given lists of link annotations, with one of
\* the given sites answering the table-of-contents requests
InitWith(place, docs, links, sites) ==
    /\ pages \in docs
    /\ hyperlinks_by_page \in [1..Len(pages) -> links]
    /\ annotations = [p \in 1..Len(pages) |-> AnnotatedWith(hyperlinks_by_page[p])]
    /\ link_page = Len(pages) + 1
    /\ InitLocals(place, sites)

\* the state in which the program starts at the given place on a document without
\* link annotations
InitAt(place, docs) == InitWith(place, docs, {<<>>}, {Site})

\* a question, its three choice buckets and a risk marker
ChoiceLines ==
    {"7. How do you classify data?", "Selected choice(s)", "Not selected choice(s)",
     "Best Practices marked as Not Applicable", "Encrypt data at rest", "None of these",
     "High risk"}

ChoiceBeginnings ==
    {<<>>,
     <<"7. How do you classify data?", "Selected choice(s)", "Encrypt data at rest">>}

InitChoices == InitAt("pass1", Documents(ChoiceBeginnings, ChoiceLines, MaxTail))

SpecChoices == InitChoices /\ [][NextSeg]_vars

\* a question, a not-selected choice and risk markers: alone on a line, inside a
\* longer line, and on a numbered line without whitespace after the dot
RiskLines ==
    {"7. How do you classify data?", "Not selected choice(s)", "Encrypt data at rest",
     "High risk", "Low risk", "No improvements identified", "Rated Medium risk",
     "8.Low risk plan"}

RiskBeginnings ==
    {<<>>,
     <<"7. How do you classify data?", "Not selected choice(s)", "Encrypt data at rest">>}

InitRisk == InitAt("pass1", Documents(RiskBeginnings, RiskLines, MaxTail))

SpecRisk == InitRisk /\ [][NextSeg]_vars

\* the end-to-end scenario of the pillar-tagged header
Scenario ==
    <<"SEC 7.How do you classify data?", "7.How do you classify data?",
      "Selected choice(s)", "Encrypt data at rest",
      "Not selected choice(s)", "Tokenize sensitive data">>

\* pillar-tagged headers and questions: with the key of a header or without, with
\* whitespace after the dot or without, with a pillar keyword or without
PillarLines ==
    {"SEC 7.How do you classify data?", "REL 3.How do you manage cost",
     "7. How do you classify data?", "7.How do you classify data?",
     "3. How do you manage cost", "12. How do you plan"}

PillarBeginnings == {<<>>, Scenario}

InitPillars == InitAt("pass1", Documents(PillarBeginnings, PillarLines, MaxTail))

SpecPillars == InitPillars /\ [][NextSeg]_vars

(***************************************************************************)
(* Properties of the questions built.                                      *)
(***************************************************************************)
\* every question_data built, and every one stored in a pillar list
Produced ==
    {log[n].q : n \in 1..Len(log)}
      \cup UNION {{pillars[name][k] : k \in 1..Len(pillars[name])} : name \in DOMAIN pillars}

CountStatus(choices, status) ==
    Cardinality({k \in 1..Len(choices) : choices[k].status = status})

\* C1: the three stats of every question are the numbers of its choices with the
\* corresponding status, they add up to the number of choices, there is at least one
\* choice, and a question whose buckets stayed empty holds exactly the placeholder
\* with stats {0, 1, 0}.
C1_StatsInvariant ==
    /\ \A q \in Produced :
         /\ q.stats.selected = CountStatus(q.choices, StatusSelected)
         /\ q.stats.not_selected = CountStatus(q.choices, StatusNotSelected)
         /\ q.stats.na = CountStatus(q.choices, StatusNotApplicable)
         /\ q.stats.selected + q.stats.not_selected + q.stats.na = Len(q.choices)
         /\ Len(q.choices) >= 1
    /\ \A n \in 1..Len(log) :
         (Len(log[n].raw_selected) + Len(log[n].raw_not_selected) + Len(log[n].raw_na) = 0)
           => /\ log[n].q.choices = <<PlaceholderChoice>>
              /\ log[n].q.stats = [selected |-> 0, not_selected |-> 1, na |-> 0]

\* a question with a selected and a not-selected choice, after one without choices
C1_Witness ==
    \E m, n \in 1..Len(log) :
       /\ log[m].q.choices = <<PlaceholderChoice>>
       /\ log[n].q.stats.selected >= 1
       /\ log[n].q.stats.not_selected >= 1
       /\ log[n].q.choices # <<PlaceholderChoice>>

RECURSIVE WithoutNoneOfThese(_)
\* a bucket without its members that contain "None of these", the others in order
WithoutNoneOfThese(bucket) ==
    IF Len(bucket) = 0 THEN <<>>
    ELSE IF Contains(bucket[1], NoneOfThese) THEN WithoutNoneOfThese(Tail(bucket))
    ELSE <<bucket[1]>> \o WithoutNoneOfThese(Tail(bucket))

\* bucket is what the claim of C2 makes of raw
SuppressedAlone(raw, bucket) ==
    bucket = IF HasOther(raw) THEN WithoutNoneOfThese(raw) ELSE raw

\* C2 as claimed: each bucket on its own loses its "None of these" members when it
\* holds another choice and is retained unchanged when it holds none, whatever the
\* other two buckets hold.
C2_PerBucketSuppression ==
    \A n \in 1..Len(log) :
       /\ SuppressedAlone(log[n].raw_selected, log[n].selected)
       /\ SuppressedAlone(log[n].raw_not_selected, log[n].not_selected)
       /\ SuppressedAlone(log[n].raw_na, log[n].na)

\* C2 as amended: when any of the three buckets of a question holds a choice that
\* does not contain "None of these", every choice containing "None of these" is
\* dropped from all three buckets (a bucket holding nothing else becomes empty);
\* when none does, the three buckets are retained unchanged.
C2_AnyBucketSuppression ==
    \A n \in 1..Len(log) :
       LET any == \/ HasOther(log[n].raw_selected)
                  \/ HasOther(log[n].raw_not_selected)
                  \/ HasOther(log[n].raw_na)
           After(raw) == IF any THEN WithoutNoneOfThese(raw) ELSE raw
       IN /\ log[n].selected = After(log[n].raw_selected)
          /\ log[n].not_selected = After(log[n].raw_not_selected)
          /\ log[n].na = After(log[n].raw_na)
          /\ log[n].q.stats.selected + log[n].q.stats.na + Len(log[n].not_selected)
               = Len(After(log[n].raw_selected)) + Len(After(log[n].raw_na))
                   + Len(After(log[n].raw_not_selected))

\* a bucket of only "None of these" emptied because another bucket holds a choice
C2_Witness ==
    \E n \in 1..Len(log) :
       /\ HasOther(log[n].raw_selected)
       /\ log[n].raw_not_selected = <<NoneOfThese>>
       /\ log[n].not_selected = <<>>
       /\ log[n].q.stats.not_selected = 0

\* C3: a question that ends with no not-selected choice has risk_level '', whatever
\* risk-level text its block held.
C3_RiskGated ==
    \A q \in Produced :
       CountStatus(q.choices, StatusNotSelected) = 0 => q.risk_level = ""

\* a question whose block set a risk level and that has no not-selected choice
C3_Witness ==
    \E n \in 1..Len(log) :
       /\ log[n].detected_risk = "High Risk"
       /\ CountStatus(log[n].q.choices, StatusNotSelected) = 0
       /\ log[n].q.stats.selected >= 1
       /\ log[n].q.risk_level = ""

\* the level a line names, and whether it names one
IsMarker(line) ==
    \/ Contains(line, "High risk")
    \/ Contains(line, "Medium risk")
    \/ Contains(line, "Low risk")
    \/ Contains(line, "No improvements identified")

MarkerLevel(line) ==
    IF Contains(line, "High risk") THEN "High Risk"
    ELSE IF Contains(line, "Medium risk") THEN "Medium Risk"
    ELSE IF Contains(line, "Low risk") THEN "Low Risk"
    ELSE ""

\* the level of the last marker line among lines first..last of a page, '' if none
LastMarker(page, first, last) ==
    LET marked == {k \in first..last : IsMarker(Strip(page[k]))} IN
    IF marked = {} THEN ""
    ELSE MarkerLevel(Strip(page[CHOOSE k \in marked : \A m \in marked : m <= k]))

\* the first index from k on of a line of page that starts a question, with or
\* without whitespace after the dot; the length of the page plus one if there is none
NextQuestionLine(page, k) ==
    LET hits == {h \in k..Len(page) : QuestionMatch(Strip(page[h]))} IN
    IF hits = {} THEN Len(page) + 1 ELSE CHOOSE h \in hits : \A m \in hits : h <= m

\* the first index from k on of a line of page that ends a question's text; the
\* length of the page plus one if there is none
TextEnd(page, k) ==
    LET hits == {h \in k..Len(page) : TextBreak(Strip(page[h]))} IN
    IF hits = {} THEN Len(page) + 1 ELSE CHOOSE h \in hits : \A m \in hits : h <= m

\* the first index from k on of a line of page matching ^\d+\.\s; the length of the
\* page plus one if there is none
BlockEnd(page, k) ==
    LET hits == {h \in k..Len(page) : QuestionBoundary(Strip(page[h]))} IN
    IF hits = {} THEN Len(page) + 1 ELSE CHOOSE h \in hits : \A m \in hits : h <= m

\* C4 as claimed: a question with at least one not-selected choice exposes the level
\* of the last risk marker between its start line and the next question line.
C4_LastMarkerExposed ==
    \A n \in 1..Len(log) :
       CountStatus(log[n].q.choices, StatusNotSelected) >= 1
         => log[n].q.risk_level
              = LastMarker(pages[log[n].page], log[n].start + 1,
                           NextQuestionLine(pages[log[n].page], log[n].start + 1) - 1)

\* C4 as amended: a question whose not-selected bucket is not empty after the
\* None-of-these filter exposes the level of the last line containing a risk marker
\* among the lines of its block: the lines of its page after its text lines and
\* before the next line matching ^\d+\.\s (a line with several markers counts as
\* High, then Medium, then Low); '' when the block has no marker or its last marker
\* is "No improvements identified".  A question whose only not-selected choice is
\* the placeholder exposes ''.
C4_LastMarkerInBlock ==
    \A n \in 1..Len(log) :
       LET page == pages[log[n].page]
           first == TextEnd(page, log[n].start + 1)
       IN /\ Len(log[n].not_selected) > 0
               => log[n].q.risk_level = LastMarker(page, first, BlockEnd(page, first) - 1)
          /\ log[n].q.choices = <<PlaceholderChoice>> => log[n].q.risk_level = ""

\* a question with a not-selected choice whose block holds a Low risk marker and,
\* later, a High risk marker
C4_Witness ==
    \E n \in 1..Len(log) :
       /\ Len(log[n].not_selected) > 0
       /\ log[n].q.risk_level = "High Risk"
       /\ \E k \in log[n].block_start..(log[n].block_end - 1) :
             Strip(pages[log[n].page][k]) = "Low risk"

(***************************************************************************)
(* Properties of the pillar lists.                                         *)
(***************************************************************************)
\* the stripped line k of page p
LineAt(p, k) == Strip(pages[p][k])

\* the key pass 2 gives the question of log entry n: its number and its text
KeyOf(n) == <<QuestionNum(LineAt(log[n].page, log[n].start)),
              question_key_words(log[n].q.question)>>

\* the places <<page, line>> of the pillar-tagged headers with the given key
HeadersWith(key) ==
    {pl \in UNION {{<<p, k>> : k \in 1..Len(pages[p])} : p \in 1..Len(pages)} :
        /\ ProperIdMatch(LineAt(pl[1], pl[2]))
        /\ <<ProperIdNum(LineAt(pl[1], pl[2])),
             question_key_words(ProperIdText(LineAt(pl[1], pl[2])))>> = key}

\* the last of a set of places, in page order and then line order
LastPlace(places) ==
    CHOOSE a \in places :
       \A b \in places : b[1] < a[1] \/ (b[1] = a[1] /\ b[2] <= a[2])

\* the abbreviation, in upper case, of the header at a place
HeaderAbbrev(pl) == ProperIdPrefix(LineAt(pl[1], pl[2]))

\* the Question the end-to-end scenario must give
ScenarioQuestion ==
    [question_id |-> "SEC-07",
     pillar |-> "Security",
     question |-> "How do you classify data?",
     risk_level |-> "",
     notes |-> "",
     improvement_plan |-> "",
     choices |-> <<[choice |-> "Encrypt data at rest", status |-> StatusSelected],
                   [choice |-> "Tokenize sensitive data", status |-> StatusNotSelected]>>,
     stats |-> [selected |-> 1, not_selected |-> 1, na |-> 0],
     improvement_items |-> <<>>]

\* C6: once the document is read, a question whose key (number, first four
\* lower-cased words of its text) is the key of a pillar-tagged header of the
\* document has the pillar that header's abbreviation names (of the last such
\* header, should several share the key) and the id ABBR-NN, whatever pillar was
\* active and whatever keyword the text holds;
\* and the scenario document gives exactly the Security question SEC-07 with one
\* selected and one not-selected choice.
C6_Pass1Authority ==
    pc = "done"
      => /\ \A n \in 1..Len(log) :
               HeadersWith(KeyOf(n)) # {}
                 => LET abbrev == HeaderAbbrev(LastPlace(HeadersWith(KeyOf(n)))) IN
                    /\ log[n].q.pillar = pillar_map(abbrev)
                    /\ log[n].q.question_id = abbrev \o "-" \o Pad2(KeyOf(n)[1])
         /\ pages = <<Scenario>>
               => pillars = [EmptyPillars EXCEPT !["Security"] = <<ScenarioQuestion>>]

\* a question of the Reliability header whose text holds the keyword "cost", read
\* while Operational Excellence was the active pillar
C6_Witness ==
    \E n \in 2..Len(log) :
       /\ pc = "done"
       /\ HeadersWith(KeyOf(n)) # {}
       /\ log[n - 1].q.pillar = "Operational Excellence"
       /\ log[n].q.pillar = "Reliability"
       /\ log[n].q.question_id = "REL-03"
       /\ Contains(log[n].q.question, "cost")

\* the questions of log, in order, that have the given pillar
RECURSIVE QuestionsOf(_, _)
QuestionsOf(entries, name) ==
    IF Len(entries) = 0 THEN <<>>
    ELSE (IF entries[1].q.pillar = name THEN <<entries[1].q>> ELSE <<>>)
           \o QuestionsOf(Tail(entries), name)

\* the number of questions stored in the pillar lists
RECURSIVE StoredCount(_)
StoredCount(names) ==
    IF names = {} THEN 0
    ELSE LET name == CHOOSE x \in names : TRUE IN
         Len(pillars[name]) + StoredCount(names \ {name})

\* C7 as claimed: every question detected in pass 2 is in exactly one pillar list.
C7_EveryQuestionStored ==
    /\ StoredCount(DOMAIN pillars) = Len(log)
    /\ \A n \in 1..Len(log) :
          Cardinality({name \in DOMAIN pillars :
                         \E k \in 1..Len(pillars[name]) : pillars[name][k] = log[n].q}) = 1

\* C7 as amended: every question detected in pass 2 while a pillar is active is
\* appended once to the list of that pillar and to no other list, the lists keeping
\* the order of detection; a question detected while no pillar is active (number
\* above 11, key not in the pass-1 map, no pillar set before) is in no list.
C7_StoredUnderActivePillar ==
    /\ \A name \in DOMAIN pillars : pillars[name] = QuestionsOf(log, name)
    /\ StoredCount(DOMAIN pillars)
         = Cardinality({n \in 1..Len(log) : log[n].q.pillar # None})

\* a question omitted for want of a pillar, and a later one stored
C7_Witness ==
    \E m, n \in 1..Len(log) :
       /\ m < n
       /\ log[m].q.pillar = None
       /\ log[n].q.pillar = "Security"
       /\ StoredCount(DOMAIN pillars) = Len(log) - 1

\* C8: no pillar list holds two Questions with the same question_id.
C8_UniqueQuestionIds ==
    \A name \in DOMAIN pillars :
       \A a, b \in 1..Len(pillars[name]) :
          a # b => pillars[name][a].question_id # pillars[name][b].question_id

\* C9: once the document is read, every line that matches the question-start
\* pattern, with or without whitespace after the dot, is the start line of a
\* Question.
C9_EveryQuestionLineStarts ==
    pc = "done"
      => \A p \in 1..Len(pages) : \A k \in 1..Len(pages[p]) :
            QuestionMatch(LineAt(p, k))
              => \E n \in 1..Len(log) : log[n].page = p /\ log[n].start = k

(***************************************************************************)
(* The matcher on its own: calls with item texts and link lists.           *)
(***************************************************************************)
InitMatch == InitAt("match", {<<<<"">>>>})

SpecMatch == InitMatch /\ [][NextMatch]_vars

RECURSIVE FirstTitleWithin(_, _)
\* the URL of the first page whose normalized title is a substring of the normalized
\* item text, '' when there is none
FirstTitleWithin(item_lower, toc_pages) ==
    IF Len(toc_pages) = 0 THEN ""
    ELSE IF Contains(item_lower, Normalize(toc_pages[1][1])) THEN toc_pages[1][2]
    ELSE FirstTitleWithin(item_lower, Tail(toc_pages))

\* C5: the matcher returns the URL of the first (title, url) pair, in the order the
\* pages were gathered, whose normalized title is a substring of the normalized item
\* text, and '' when no title matches or no pages were gathered.  (The code tests
\* the containment the other way round, so this fails.)
C5_FirstTitleWithinItem ==
    calls > 0 => matched_url = FirstTitleWithin(Normalize(item_text), wa_pages)

(***************************************************************************)
(* The property parser on documents with a property block.                 *)
(***************************************************************************)
PropertyLines ==
    {"Workload properties", "ARN", "arn:aws:wellarchitected:",
     "us-east-1:123456789012:workload/abc", "Description", "Review owner", "-",
     "Page 1 of 9"}

PropertyBeginnings ==
    {<<>>, <<"Workload properties">>,
     <<"Workload properties", "ARN", "arn:aws:wellarchitected:">>}

InitProps == InitAt("props", Documents(PropertyBeginnings, PropertyLines, MaxTail))

SpecProps == InitProps /\ [][NextProps]_vars

\* the parser is about to read a value line of the ARN
ReadsArnValue ==
    /\ pc = "props_block"
    /\ pc' = "props_block"
    /\ current_property = "ARN"
    /\ prop_lines[prop_j] \notin PropertyLabels \cup {"-"}

RECURSIVE Glued(_, _, _, _)
\* the lines from..to of ls put together without a separator, the lines of the set
\* skipped left out
Glued(ls, from, to, skipped) ==
    IF from > to THEN ""
    ELSE (IF from \in skipped THEN "" ELSE ls[from]) \o Glued(ls, from + 1, to, skipped)

\* the first line after line k that is one of the labels, Len(ls) + 1 for none
NextLabel(ls, k, labels) ==
    LET found == {m \in (k + 1)..Len(ls) : ls[m] \in labels} IN
    IF found = {} THEN Len(ls) + 1 ELSE CHOOSE h \in found : \A m \in found : h <= m

\* C10 as stated: when an ARN value is read and a Description label follows, all the
\* lines between the ARN label and that Description label are concatenated with no
\* separator into the ARN value.
C10_AllLinesUpToDescription ==
    [][ReadsArnValue /\ NextLabel(prop_lines, prop_j, {"Description"}) <= Len(prop_lines)
        => /\ DictHas(workload_props', "ARN")
           /\ DictGet(workload_props', "ARN")
                 = Glued(prop_lines, prop_j,
                         NextLabel(prop_lines, prop_j, {"Description"}) - 1, {})]_vars

\* C10, amended: when the line after the ARN label is a value (not a label, not '-',
\* not a copyright or page line), the ARN value is that line and the lines after it
\* up to the next line that is 'Description' or 'Review owner' (or the end of the
\* page), the lines containing the copyright sign or 'Page ' left out, concatenated
\* with no separator; the parser goes on at the terminating line with no current
\* label, and a label line it reads, 'Description' included, becomes the current
\* label.
C10_ArnContinuation ==
    [][/\ ReadsArnValue =>
            LET end == NextLabel(prop_lines, prop_j, {"Description", "Review owner"})
                noise == {k \in (prop_j + 1)..(end - 1) : IsNoise(prop_lines[k])}
            IN /\ DictHas(workload_props', "ARN")
               /\ DictGet(workload_props', "ARN")
                     = Glued(prop_lines, prop_j, end - 1, noise)
               /\ prop_j' = end
               /\ current_property' = None
       /\ (/\ pc = "props_block"
           /\ pc' = "props_block"
           /\ prop_lines[prop_j] \in PropertyLabels)
          => /\ current_property' = prop_lines[prop_j]
             /\ workload_props' = workload_props]_vars

\* the ARN of the example is reassembled from its two lines and the Description
\* label that ended it has started the Description
C10_Witness ==
    /\ pc = "props_done"
    /\ pages = <<<<"Workload properties", "ARN", "arn:aws:wellarchitected:",
                   "us-east-1:123456789012:workload/abc", "Description",
                   "Review owner">>>>
    /\ DictHas(workload_props, "ARN")
    /\ DictGet(workload_props, "ARN")
          = "arn:aws:wellarchitected:us-east-1:123456789012:workload/abc"
    /\ ~DictHas(workload_props, "Description")

(***************************************************************************)
(* The property parser on documents of up to seven pages with the header   *)
(* line on any page, or on none.                                           *)
(***************************************************************************)
HeaderLines ==
    {"Workload properties", "  Workload properties ", "Workload properties:",
     "Environment"}

HeaderBeginnings ==
    {<<>>,
     <<PageBreak, PageBreak, PageBreak>>,
     <<PageBreak, PageBreak, PageBreak, PageBreak>>,
     <<PageBreak, PageBreak, PageBreak, PageBreak, PageBreak>>}

InitHeader == InitAt("props", Documents(HeaderBeginnings, HeaderLines, MaxTail))

SpecHeader == InitHeader /\ [][NextProps]_vars

\* some line of page p, trimmed, is the header line
HeaderOn(p) ==
    \E k \in 1..Len(pages[p]) : Strip(pages[p][k]) = "Workload properties"

\* no trimmed line of the first five pages is the header line
NoHeaderOnFirstPages ==
    \A p \in 1..Len(pages) : p <= FirstPages => ~HeaderOn(p)

\* C16: when no trimmed line equal to "Workload properties" occurs on the first 5
\* pages (the header may occur on page 6 or later, the document may have fewer than
\* 5 pages), extract_workload_properties never enters a property block and returns
\* the empty mapping.
C16_NoHeaderEmptyMapping ==
    NoHeaderOnFirstPages =>
        /\ pc \in {"props", "props_done"}
        /\ workload_props = <<>>

\* the parser has returned on a document whose only header line is on page 6
C16_Witness ==
    /\ pc = "props_done"
    /\ Len(pages) >= FirstPages + 1
    /\ NoHeaderOnFirstPages
    /\ HeaderOn(FirstPages + 1)
    /\ Len(pages[FirstPages + 1]) >= 3
    /\ workload_props = <<>>


(***************************************************************************)
(* The property parser on blocks with account IDs.                         *)
(***************************************************************************)
ArnWithAccount == "arn:aws:wellarchitected:us-east-1:123456789012:workload/x"

ArnWithoutAccount == "arn:aws:wellarchitected:workload/x"

AccountLines ==
    {"Account IDs", "-", "999988887777", "Due 3/14/2024", "ARN", ArnWithAccount}

AccountBeginnings ==
    {<<>>,
     <<"Workload properties">>,
     <<"Workload properties", "ARN", ArnWithAccount, "Review owner">>,
     <<"Workload properties", "ARN", ArnWithoutAccount, "Review owner">>}

InitAccount == InitAt("props", Documents(AccountBeginnings, AccountLines, MaxTail))

SpecAccount == InitAccount /\ [][NextProps]_vars

\* the parser returns the dict of a property block
ReturnsProps == pc = "props_block" /\ pc' = "props_done"

\* the 12-digit groups of arn that stand between two colons, by their position
AccountGroups(arn) ==
    {k \in 1..(Len(arn) - 13) :
        /\ Char(arn, k) = ":"
        /\ \A m \in 1..12 : Char(arn, k + m) \in Digits
        /\ Char(arn, k + 13) = ":"}

\* the first 12-digit group of arn between colons
FirstAccountGroup(arn) ==
    LET k == CHOOSE h \in AccountGroups(arn) : \A m \in AccountGroups(arn) : h <= m
    IN SubSeq(arn, k + 1, k + 12)

\* Account IDs is missing from the dict or recorded as "-"
NoAccountId(props) ==
    IF DictHas(props, "Account IDs") THEN DictGet(props, "Account IDs") = "-" ELSE TRUE

\* the ARN of the dict holds a 12-digit group between colons
ArnHasAccount(props) ==
    IF DictHas(props, "ARN") THEN AccountGroups(DictGet(props, "ARN")) # {} ELSE FALSE

\* C11 as claimed: in the dict returned for a property block, Account IDs is the
\* first 12-digit group between colons of the ARN when it was missing or "-" and
\* the ARN holds such a group; a value other than "-" given for Account IDs is
\* returned unchanged; a recorded "-" stays "-" when the ARN holds no such group.
C11_AccountIdFallback ==
    [][ReturnsProps
         => /\ (NoAccountId(workload_props) /\ ArnHasAccount(workload_props))
                 => /\ DictHas(workload_props', "Account IDs")
                    /\ DictGet(workload_props', "Account IDs")
                          = FirstAccountGroup(DictGet(workload_props, "ARN"))
            /\ ~NoAccountId(workload_props)
                 => DictGet(workload_props', "Account IDs")
                       = DictGet(workload_props, "Account IDs")
            /\ (DictHas(workload_props, "Account IDs") /\ NoAccountId(workload_props)
                  /\ ~ArnHasAccount(workload_props))
                 => DictGet(workload_props', "Account IDs") = "-"]_vars

\* C11 as amended: as claimed, but a value other than "-" given for Account IDs is
\* returned unchanged only when it holds no date of the form d/m/yyyy (a date in it
\* may be moved to the Date property).
C11_AccountIdFallbackDateFree ==
    [][ReturnsProps
         => /\ (NoAccountId(workload_props) /\ ArnHasAccount(workload_props))
                 => /\ DictHas(workload_props', "Account IDs")
                    /\ DictGet(workload_props', "Account IDs")
                          = FirstAccountGroup(DictGet(workload_props, "ARN"))
            /\ ~NoAccountId(workload_props)
                 => IF FirstDateAt(DictGet(workload_props, "Account IDs")) = 0
                    THEN DictGet(workload_props', "Account IDs")
                            = DictGet(workload_props, "Account IDs")
                    ELSE DictHas(workload_props', "Account IDs")
            /\ (DictHas(workload_props, "Account IDs") /\ NoAccountId(workload_props)
                  /\ ~ArnHasAccount(workload_props))
                 => DictGet(workload_props', "Account IDs") = "-"]_vars

\* an Account IDs recorded as "-" replaced by the account of the ARN
C11_Witness ==
    /\ pc = "props_done"
    /\ pages = <<<<"Workload properties", "ARN", ArnWithAccount, "Review owner",
                   "Account IDs", "-">>>>
    /\ DictGet(workload_props, "Account IDs") = "123456789012"

(***************************************************************************)
(* get_wa_framework_urls on tables of contents of several shapes.          *)
(***************************************************************************)
LeafAlerts == [title |-> "Identify Alerts", href |-> "ia.html"]

LeafDetect == [title |-> "Detect", href |-> "d.html"]

NodeOperate == [title |-> "Operate", href |-> "o.html",
                contents |-> <<LeafAlerts, LeafDetect>>]

\* nodes with and without children, two levels deep, and nodes that lack a title
\* or a href
TocNodes ==
    {LeafAlerts, LeafDetect, NodeOperate,
     [title |-> "Respond", href |-> "r.html", contents |-> <<LeafAlerts>>],
     [title |-> "Empty", href |-> "e.html", contents |-> <<>>],
     [title |-> "Pillar", href |-> "p.html", contents |-> <<NodeOperate, LeafDetect>>],
     [title |-> "No href"],
     [href |-> "notitle.html"],
     [title |-> "Broken inside", href |-> "b.html", contents |-> <<[title |-> "No href"]>>],
     [href |-> "q.html", contents |-> <<LeafAlerts>>]}

\* the number of nodes at the top of a table of contents
MaxToc == 2

\* the answers to a table-of-contents request: none (the request or its decoding
\* raised), a JSON object without contents, or a tree
TocDocs ==
    {[ok |-> FALSE], [ok |-> TRUE]}
      \cup {[ok |-> TRUE, contents |-> c] : c \in SeqsUpTo(TocNodes, MaxToc)}

InitToc ==
    InitWith("match", {<<<<"">>>>}, {<<>>}, {[b \in {SiteBase} |-> d] : d \in TocDocs})

SpecToc == InitToc /\ [][GetUrlsCall]_vars

RECURSIVE PathsOf(_)
\* the nodes of a tree, each by the child indices that lead to it
PathsOf(contents) ==
    UNION {{<<n>>} \cup (IF "contents" \in DOMAIN contents[n]
                         THEN {<<n>> \o q : q \in PathsOf(contents[n].contents)}
                         ELSE {}) : n \in 1..Len(contents)}

RECURSIVE NodeAt(_, _)
\* the node a path leads to
NodeAt(contents, path) ==
    IF Len(path) = 1 THEN contents[path[1]]
    ELSE NodeAt(contents[path[1]].contents, Tail(path))

\* q is a descendant of p
Descendant(q, p) == Len(q) > Len(p) /\ SubSeq(q, 1, Len(p)) = p

\* q is, or is below, a sibling that stands before p or before an ancestor of p
EarlierBranch(q, p) ==
    \E k \in 1..Len(q) :
       /\ k <= Len(p)
       /\ SubSeq(q, 1, k - 1) = SubSeq(p, 1, k - 1)
       /\ q[k] < p[k]

\* the place of node p in the list: after its descendants and the earlier branches
PlaceOf(paths, p) ==
    1 + Cardinality({q \in paths : Descendant(q, p) \/ EarlierBranch(q, p)})

\* a table of contents that was received and whose nodes all have title and href
WellFormed(doc) ==
    /\ doc.ok
    /\ "contents" \in DOMAIN doc
    /\ \A p \in PathsOf(doc.contents) :
          {"title", "href"} \subseteq DOMAIN NodeAt(doc.contents, p)

\* C12: for a table of contents whose nodes all have title and href, the list
\* returned holds exactly one pair (title, base_url/href) per node, the pair of a
\* node after the pairs of all its descendants, siblings (with their subtrees) in
\* document order.
C12_ChildrenBeforeParent ==
    (calls > 0 /\ WellFormed(toc_site[last_base_url]))
      => LET contents == toc_site[last_base_url].contents
             paths == PathsOf(contents)
         IN /\ Len(wa_pages) = Cardinality(paths)
            /\ \A p \in paths :
                  wa_pages[PlaceOf(paths, p)]
                     = <<NodeAt(contents, p).title,
                         last_base_url \o "/" \o NodeAt(contents, p).href>>

\* a tree two levels deep, flattened: the leaves, their parent, its sibling, the root
C12_Witness ==
    /\ calls > 0
    /\ wa_pages = <<<<"Identify Alerts", SiteBase \o "/ia.html">>,
                    <<"Detect", SiteBase \o "/d.html">>,
                    <<"Operate", SiteBase \o "/o.html">>,
                    <<"Detect", SiteBase \o "/d.html">>,
                    <<"Pillar", SiteBase \o "/p.html">>>>

(***************************************************************************)
(* Extraction of documents with link annotations, from sites whose tables  *)
(* of contents can or cannot be read.                                      *)
(***************************************************************************)
LinkA == "https://docs.aws.amazon.com/wellarchitected/a/sec.html"

LinkB == "https://docs.aws.amazon.com/wellarchitected/b/ops.html"

\* the link annotations a page can carry
PageLinks == {<<>>, <<LinkA>>, <<LinkB, LinkA>>}

\* both tables of contents readable; the first not received; the first not received
\* and the second with a node that lacks its href
Sites ==
    {Site,
     [Site EXCEPT ![SiteBase] = [ok |-> FALSE]],
     [Site EXCEPT ![SiteBase] = [ok |-> FALSE],
                  ![SiteBaseB] = [ok |-> TRUE,
                                  contents |-> <<LeafAlerts, [title |-> "No href"]>>]]}

PlanBeginnings ==
    {<<"7. How do you", "classify data?", "Not selected choice(s)",
       "Tokenize sensitive data", "Improvement plan", "Identify alerts">>}

PlanLines == {"Identify-events"}

InitLinks ==
    \/ InitWith("pass1", Documents(PlanBeginnings, PlanLines, MaxTail), PageLinks, Sites)
    \/ InitWith("match", {<<<<"">>>>}, {<<>>},
                {[b \in {SiteBase} |-> d] : d \in TocDocs})

NextLinks ==
    \/ NextSeg
    \/ GetUrlsCall

SpecLinks == InitLinks /\ [][NextLinks]_vars

\* no table of contents of the base URLs linked from page p can be read
NoneReadable(p) ==
    \A b \in base_urls(hyperlinks_by_page[p]) : ~WellFormed(toc_site[b])

\* C13: a table of contents that is not received, has no contents or has a node
\* without title or href at any depth makes get_wa_framework_urls return the empty
\* list; and a question on a page none of whose linked tables of contents can be
\* read has all its improvement items, one per cleaned plan line, with url ''.
C13_FetchFailureDegrades ==
    /\ (pc = "match" /\ calls > 0 /\ ~WellFormed(toc_site[last_base_url]))
         => wa_pages = <<>>
    /\ \A n \in 1..Len(log) :
          NoneReadable(log[n].page)
            => LET items == log[n].q.improvement_items IN
               /\ Join("\n", [k \in 1..Len(items) |-> items[k].item])
                    = log[n].q.improvement_plan
               /\ \A k \in 1..Len(items) : items[k].url = ""

\* a document read to its end whose question has a link on its page, a table of
\* contents that was not received, and an improvement item without url
C13_Witness ==
    /\ pc = "done"
    /\ ~toc_site[SiteBase].ok
    /\ \E n \in 1..Len(log) :
          /\ hyperlinks_by_page[log[n].page] = <<LinkA>>
          /\ Len(log[n].q.improvement_items) > 0
          /\ log[n].q.improvement_items[1] = [item |-> "Identify alerts", url |-> ""]

(***************************************************************************)
(* The cache of get_wa_framework_urls under more base URLs than it holds.  *)
(***************************************************************************)
\* the n-th base URL of a site with many framework versions
BaseUrlNo(n) ==
    IF n = 1 THEN SiteBase
    ELSE IF n = 2 THEN SiteBaseB
    ELSE DocsHost \o "v" \o ToString(n)

\* more base URLs than the cache holds
ManyBaseUrls == {BaseUrlNo(n) : n \in 1..(maxsize + 1)}

\* the calls it takes to fill the cache, push out its oldest entry and ask for
\* that one again
SweepCalls == maxsize + 2

\* the first base URL that was never requested
NextFresh ==
    LET fresh == {n \in 1..(maxsize + 1) :
                    \A k \in 1..Len(fetched) : fetched[k] # BaseUrlNo(n)}
    IN IF fresh = {} THEN SiteBase
       ELSE BaseUrlNo(CHOOSE n \in fresh : \A m \in fresh : n <= m)

\* one call of get_wa_framework_urls in a run over many base URLs, which asks for
\* new base URLs until the cache is full and then for the first one again or for
\* another new one
GetUrlsSweep ==
    /\ pc = "sweep"
    /\ calls < SweepCalls
    /\ \E base \in IF Len(wa_cache) < maxsize THEN {NextFresh} ELSE {SiteBase, NextFresh} :
          LET got == get_wa_framework_urls(toc_site, wa_cache, base)
          IN /\ last_base_url' = base
             /\ wa_pages' = got.pages
             /\ wa_cache' = got.cache
             /\ fetched' = fetched \o got.fetched
    /\ calls' = calls + 1
    /\ UNCHANGED <<apiVars, linkVars, pages, hyperlinks_by_page, toc_site, pc, item_text,
                   available_urls, matched_url, propVars, segVars>>

NextSweep ==
    \/ MatchCall
    \/ GetUrlsCall
    \/ GetUrlsSweep

\* every base URL answers with the same one-page table of contents
ManySites == {[b \in ManyBaseUrls |-> [ok |-> TRUE, contents |-> <<LeafAlerts>>]]}

InitSweep ==
    \/ InitWith("sweep", {<<<<"">>>>}, {<<>>}, ManySites)
    \/ InitMatch

SpecSweep == InitSweep /\ [][NextSweep]_vars

\* the base URLs fetched so far
FetchedUrls == {fetched[k] : k \in 1..Len(fetched)}

AnnotationKinds ==
    {[kind |-> "uri", uri |-> LinkA], [kind |-> "uri", uri |-> LinkB],
     [kind |-> "other", uri |-> ""], [kind |-> "raises", uri |-> ""]}

\* the number of annotations of a page
MaxAnnots == 2

\* the pages: unreadable ones, with and without annotations, and readable ones
PageKinds ==
    {[readable |-> r, annots |-> a] :
        r \in BOOLEAN, a \in SeqsUpTo(AnnotationKinds, MaxAnnots)}

\* documents of one and of two pages
AnnotatedDocs == {<<p>> : p \in PageKinds} \cup {<<p, q>> : p, q \in PageKinds}

InitHyperlinks ==
    /\ annotations \in AnnotatedDocs
    /\ pages = [p \in 1..Len(annotations) |-> <<"">>]
    /\ link_page = 1
    /\ hyperlinks_by_page = <<>>
    /\ InitLocals("links", {Site})

SpecHyperlinks == InitHyperlinks /\ [][NextHyperlinks]_vars

\* the URIs of the link annotations of a page, in the order of the annotations
LinkUris(page) ==
    LET IsLink(a) == a.kind = "uri"
        links == SelectSeq(page.annots, IsLink)
    IN [k \in 1..Len(links) |-> links[k].uri]

MaxAnswers == 1

\* the id of the n-th question of the lens
QuestionIdNo(n) == "question-" \o ToString(n)

PillarIds == {"security", "operationalExcellence"}

Risks == {"HIGH", "MEDIUM", "LOW", "UNANSWERED", "NOT_APPLICABLE", "NONE"}

\* the answer summaries list_answers may hold for the n-th question
AnswerSummaries(n) ==
    {[QuestionId |-> QuestionIdNo(n), PillarId |-> p] : p \in PillarIds}
      \cup {[QuestionId |-> QuestionIdNo(n), PillarId |-> p, Risk |-> r] :
               p \in PillarIds, r \in Risks}

ChoiceEncrypt ==
    [ChoiceId |-> "sec_data_1", Title |-> "Encrypt data at rest",
     Description |-> "Encrypt"]

ChoiceTokenize == [ChoiceId |-> "sec_data_2", Title |-> "Tokenize sensitive data"]

ChoiceNone(q) == [ChoiceId |-> q \o "_no", Title |-> "None of these"]

ChoiceLists(q) ==
    {<<>>, <<ChoiceEncrypt>>, <<ChoiceEncrypt, ChoiceTokenize>>,
     <<ChoiceEncrypt, ChoiceNone(q)>>, <<ChoiceEncrypt, ChoiceTokenize, ChoiceNone(q)>>}

\* the ids the service lists as selected; "sec_data_9" is the id of no choice
SelectedLists(q) ==
    {<<>>, <<"sec_data_1">>, <<"sec_data_1", "sec_data_2">>, <<q \o "_no">>,
     <<"sec_data_9">>}

\* the answer details get_answer may return for question q
AnswerDetails(q) ==
    {[QuestionTitle |-> "How do you classify data?"]}
      \cup {[QuestionTitle |-> "How do you classify data?",
             Choices |-> c,
             SelectedChoices |-> chosen,
             ImprovementPlanUrl |-> SiteBase \o "/sec.html"] :
               c \in ChoiceLists(q), chosen \in SelectedLists(q)}

\* the workload get_workload returns
Workload ==
    [WorkloadName |-> "shop",
     WorkloadArn |-> "arn:aws:wellarchitected:us-east-1:123456789012:workload/abc",
     AwsRegions |-> <<"us-east-1", "eu-west-1">>,
     AccountIds |-> <<"123456789012">>]

\* one answer of the list: its detail is fetched and its question_data filed
ConvertAnswer ==
    /\ pc = "api"
    /\ api_answered < MaxAnswers
    /\ \E answer \in AnswerSummaries(api_answered + 1) :
         \E detail \in AnswerDetails(answer.QuestionId) :
            /\ api_pillars' = DefaultAppend(api_pillars, ApiPillar(answer),
                                            ApiQuestionData(answer, detail))
            /\ api_log' = Append(api_log, [answer |-> answer,
                                           detail |-> detail,
                                           q |-> ApiQuestionData(answer, detail)])
    /\ api_answered' = api_answered + 1
    /\ UNCHANGED <<api_record, linkVars, envVars, wa_cache, pc, segVars, propVars,
                   matchVars>>

\* the end of the list: the record is returned
ConvertReturn ==
    /\ pc = "api"
    /\ api_record' = [workload_properties |-> ApiWorkloadProperties(Workload),
                      pillars |-> api_pillars,
                      source_type |-> "api",
                      source_info |-> "Workload: shop-id"]
    /\ pc' = "api_done"
    /\ UNCHANGED <<api_answered, api_pillars, api_log, linkVars, envVars, wa_cache,
                   segVars, propVars, matchVars>>

NextApi ==
    \/ ConvertAnswer
    \/ ConvertReturn

InitApi == InitAt("api", {<<<<"">>>>})

SpecApi == InitApi /\ [][NextApi]_vars

\* the questions of the record the API source returned
ApiQuestions ==
    IF pc = "api_done"
    THEN UNION {{api_record.pillars[key][k] : k \in 1..Len(api_record.pillars[key])} :
                   key \in DOMAIN api_record.pillars}
    ELSE {}

\* the questions of the record the PDF source returned
PdfQuestions ==
    IF pc = "done"
    THEN UNION {{pillars[name][k] : k \in 1..Len(pillars[name])} : name \in DOMAIN pillars}
    ELSE {}

(***************************************************************************)
(* The record of either data source.                                       *)
(***************************************************************************)
InitRecord ==
    \/ InitRisk
    \/ InitApi

NextRecord ==
    \/ NextSeg
    \/ NextApi

SpecRecord == InitRecord /\ [][NextRecord]_vars

SixPillars == {PillarNames[k] : k \in DOMAIN PillarNames}

\* the pillars of the record of the PDF source are among the six
PdfPillarsAmongSix ==
    pc = "done" =>
        /\ DOMAIN pillars \subseteq SixPillars
        /\ \A q \in PdfQuestions : q.pillar \in SixPillars

\* the pillars of the record of the API source are among the six
ApiPillarsAmongSix ==
    pc = "api_done" =>
        /\ DOMAIN api_record.pillars \subseteq SixPillars
        /\ \A q \in ApiQuestions : q.pillar \in SixPillars

\* C17: in the record get_workload_data returns, from the PDF or from the API, every
\* key of pillars and every question's pillar field is one of the six pillar names.
\* (The API source files the questions under the service's PillarId, so this fails.)
C17_PillarsAmongSix == PdfPillarsAmongSix /\ ApiPillarsAmongSix

RiskLevels == {"High Risk", "Medium Risk", "Low Risk", ""}

\* the risk levels of the record of the PDF source
PdfRiskLevels == \A q \in PdfQuestions : q.risk_level \in RiskLevels

\* the risk levels of the record of the API source
ApiRiskLevels == \A q \in ApiQuestions : q.risk_level \in RiskLevels

\* C18 as stated: in the record of either source, every question's risk_level is
\* "High Risk", "Medium Risk", "Low Risk" or ''.  (The API source writes 'Not
\* Assessed' and 'Not Applicable', so this fails.)
C18_RiskLevelsOfRecord == PdfRiskLevels /\ ApiRiskLevels

\* the risk of the answer summary the question was made from
RiskOf(answer) == Get(answer, "Risk", "UNANSWERED")

\* C18: every question's risk_level is, in the record of the PDF source, "High Risk",
\* "Medium Risk", "Low Risk" or ''; in the record of the API source it is "High
\* Risk", "Medium Risk" or "Low Risk" for the risks HIGH, MEDIUM and LOW of the
\* service, "Not Applicable" for NOT_APPLICABLE and "Not Assessed" for every other
\* or missing risk, never ''.
C18_RiskLevelsBySource ==
    /\ PdfRiskLevels
    /\ pc = "api_done" =>
          \A n \in 1..Len(api_log) :
             LET risk == RiskOf(api_log[n].answer)
                 level == api_log[n].q.risk_level
             IN /\ api_log[n].q \in ApiQuestions
                /\ risk = "HIGH" => level = "High Risk"
                /\ risk = "MEDIUM" => level = "Medium Risk"
                /\ risk = "LOW" => level = "Low Risk"
                /\ risk = "NOT_APPLICABLE" => level = "Not Applicable"
                /\ risk \notin {"HIGH", "MEDIUM", "LOW", "NOT_APPLICABLE"}
                      => level = "Not Assessed"

\* the API source has returned a question whose answer carries no risk
C18_Witness ==
    /\ pc = "api_done"
    /\ Len(api_log) = 1
    /\ "Risk" \notin DOMAIN api_log[1].answer
    /\ \E q \in ApiQuestions : q.risk_level = "Not Assessed"

SelectionAmongChoices(detail) ==
    LET choices == Get(detail, "Choices", <<>>)
        selected == Get(detail, "SelectedChoices", <<>>)
    IN /\ \A a, b \in 1..Len(choices) :
             choices[a].ChoiceId = choices[b].ChoiceId => a = b
       /\ \A a, b \in 1..Len(selected) : selected[a] = selected[b] => a = b
       /\ \A a \in 1..Len(selected) :
             \E b \in 1..Len(choices) : choices[b].ChoiceId = selected[a]

DataLines ==
    {"Encrypt data at rest", "Improvement of keys", "Release Notes are kept",
     "Landing Page of the site", "Page 3 of 9", "-"}

DataBeginnings ==
    {<<"7. How do you classify data?", "Selected choice(s)">>,
     <<"7. How do you", "classify data?", "Not selected choice(s)">>,
     <<"7. How do you classify data?", "Best Practices marked as Not Applicable">>,
     <<"7. How do you classify data?", "Selected choice(s)", "Notes">>}

InitData == InitAt("pass1", Documents(DataBeginnings, DataLines, MaxTail))

SpecData == InitData /\ [][NextSeg]_vars

\* a line that marks the start of a section
SectionMarker(line) ==
    \/ Contains(line, "Selected choice(s)")
    \/ Contains(line, "Not selected choice(s)")
    \/ Contains(line, "Best Practices marked as Not Applicable")
    \/ (Contains(line, "Notes") /\ Len(line) < 10)
    \/ Contains(line, "Improvement plan")

\* a "Page N of M" footer
PageFooter(line) == \E k \in 1..Len(line) : PageOfAt(line, k) > 0

\* the copyright notice, a page footer, or one of the two fixed phrases
Boilerplate(line) ==
    \/ Contains(line, "© 2025, Amazon Web Services")
    \/ PageFooter(line)
    \/ Contains(line, "Answer the question to view the improvement plan.")
    \/ Contains(line, "Ask an expert")

\* a line the data rule is about
DataCandidate(line) ==
    /\ line # ""
    /\ Len(line) > 5
    /\ ~SectionMarker(line)
    /\ line \notin {"-", "Unanswered"}
    /\ ~Boilerplate(line)

\* the words that keep a line out of the bucket of a state
WordsKeptOut(state) ==
    IF state = "notes"
    THEN <<"Selected", "Not selected", "Best Practices", "Improvement">>
    ELSE <<"Selected", "Not selected", "Best Practices", "Notes", "Improvement">>

\* the line goes to the bucket of the state: as stated every candidate does, in
\* fact only one without both "Page" and "of" and without a word kept out
Kept(line, state, as_stated) ==
    /\ DataCandidate(line)
    /\ IF as_stated THEN TRUE
       ELSE /\ ~(Contains(line, "Page") /\ Contains(line, "of"))
            /\ ~AnyIn(line, WordsKeptOut(state))

\* the lines k..to-1 of page p that go to the bucket called name, in order, the
\* state before line k being given
RECURSIVE Gathered(_, _, _, _, _, _)
Gathered(p, k, to, state, name, as_stated) ==
    IF k >= to THEN <<>>
    ELSE (IF state = name /\ Kept(LineAt(p, k), state, as_stated)
          THEN <<LineAt(p, k)>> ELSE <<>>)
           \o Gathered(p, k + 1, to, SectionAfterLine(state, LineAt(p, k)), name,
                       as_stated)

\* the four buckets of the question of log entry n are the lines gathered
BucketsGathered(n, as_stated) ==
    LET Of(name) == Gathered(log[n].page, log[n].block_start, log[n].block_end,
                             "none", name, as_stated)
    IN /\ log[n].raw_selected = Of("selected")
       /\ log[n].raw_not_selected = Of("not_selected")
       /\ log[n].raw_na = Of("na")
       /\ log[n].q.notes = Join("\n", Of("notes"))

\* C20 as stated: within a question's block, every line that is non-empty, longer
\* than 5 characters, not a section-header marker, not "-" or "Unanswered" and not
\* boilerplate is appended, unchanged and in order, to the bucket of the current
\* state when that state is selected, not_selected, na or notes, whatever other
\* words it contains.  (Lines holding words of the section headers, or both
\* "Page" and "of", are dropped, so this fails.)
C20_EveryDataLineAppended == \A n \in 1..Len(log) : BucketsGathered(n, TRUE)

\* C20: within a question's block, the bucket of the current state (selected,
\* not_selected, na or notes) receives, unchanged and in order, exactly the lines
\* that are non-empty, longer than 5 characters, not a section-header marker, not
\* "-" or "Unanswered", not boilerplate, that do not contain both "Page" and "of",
\* and that contain none of "Selected", "Not selected", "Best Practices",
\* "Improvement" nor, in the three choice states, "Notes".
C20_DataLinesWithoutHeaderWords == \A n \in 1..Len(log) : BucketsGathered(n, FALSE)

\* a selected section whose plain line was kept and whose line with a header word
\* was dropped
C20_Witness ==
    \E n \in 1..Len(log) :
       /\ log[n].raw_selected = <<"Encrypt data at rest">>
       /\ \E k \in log[n].block_start..(log[n].block_end - 1) :
             /\ LineAt(log[n].page, k) = "Improvement of keys"
             /\ k > log[n].block_start + 1

(***************************************************************************)
(* The improvement state of the segmenter, on blocks that open the         *)
(* improvement plan and go on with item lines, wrapped continuations,      *)
(* short lines and lines the state passes over.                            *)
(***************************************************************************)
ImprovementLines ==
    {"Identify alerts and respond", "and respond to them quickly", "short one",
     "No risk detected for this question. No action needed", "Page 3 of 9",
     "Improvement plan"}

ImprovementBeginnings ==
    {<<>>,
     <<"7. How do you", "classify data?", "Not selected choice(s)", "Improvement plan">>}

InitImprovement ==
    InitAt("pass1", Documents(ImprovementBeginnings, ImprovementLines, MaxTail))

SpecImprovement == InitImprovement /\ [][NextSeg]_vars

\* a data line the improvement state accepts
AcceptedPlanLine(line) ==
    /\ DataCandidate(line)
    /\ ~(Contains(line, "Page") /\ Contains(line, "of"))
    /\ ~Contains(line, "Answer the question to view")
    /\ ~Contains(line, "No risk detected for this question. No action needed")
    /\ Len(line) > 10

\* the improvement items after the lines k..to-1 of page p, the state and the items
\* before line k being given
RECURSIVE ItemsGathered(_, _, _, _, _)
ItemsGathered(p, k, to, state, items) ==
    IF k >= to THEN items
    ELSE LET line == LineAt(p, k)
             after == IF state = "improvement" /\ AcceptedPlanLine(line)
                      THEN IF Char(line, 1) \in UpperCase \/ items = <<>>
                           THEN Append(items, line)
                           ELSE [items EXCEPT ![Len(items)] = @ \o " " \o line]
                      ELSE items
         IN ItemsGathered(p, k + 1, to, SectionAfterLine(state, line), after)

\* the accepted lines among k..to-1 of page p that begin with an uppercase letter
RECURSIVE UpperAccepted(_, _, _, _)
UpperAccepted(p, k, to, state) ==
    IF k >= to THEN 0
    ELSE (IF /\ state = "improvement"
             /\ AcceptedPlanLine(LineAt(p, k))
             /\ Char(LineAt(p, k), 1) \in UpperCase
          THEN 1 ELSE 0)
           + UpperAccepted(p, k + 1, to, SectionAfterLine(state, LineAt(p, k)))

\* C21: in improvement state an accepted data line starts a new improvement item
\* when it begins with an uppercase letter or the question has no item yet, and is
\* otherwise appended to the last item after a single space; so the items are the
\* accepted lines in document order, and their number never exceeds 1 plus the
\* number of accepted lines beginning with an uppercase letter.
C21_ImprovementItems ==
    pc = "block" =>
        /\ improvement_plans = ItemsGathered(page_num, block_start, j, "none", <<>>)
        /\ Len(improvement_plans)
              <= 1 + UpperAccepted(page_num, block_start, j, "none")

\* a question whose improvement plan began with a continuation line, took a new
\* item and had a continuation appended to it
C21_Witness ==
    /\ pc = "block"
    /\ improvement_plans
          = <<"and respond to them quickly",
              "Identify alerts and respond and respond to them quickly">>

(***************************************************************************)
(* The fallback pillar heuristic, on documents without pillar-tagged       *)
(* headers whose questions hold the keywords, several of them, or none.    *)
(***************************************************************************)
FallbackLines ==
    {"3. How do you manage cost", "12. How do you securely operate",
     "13. Manage COST of Security", "14. How do you plan",
     "15. Network topology and compute resources"}

FallbackBeginnings ==
    {<<>>,
     <<"16. How do you", "meet sustainability goals", "Selected choice(s)">>}

InitFallback == InitAt("pass1", Documents(FallbackBeginnings, FallbackLines, MaxTail))

SpecFallback == InitFallback /\ [][NextSeg]_vars

\* the pillar the heuristic gives: with_operate tells whether "securely operate"
\* is a keyword of Security
FallbackRule(num, text, active, with_operate) ==
    LET low == Lower(text) IN
    IF num <= 11 /\ active = None THEN "Operational Excellence"
    ELSE IF Contains(low, "security") \/ (with_operate /\ Contains(low, "securely operate"))
    THEN "Security"
    ELSE IF Contains(low, "service quotas") \/ Contains(low, "network topology")
    THEN "Reliability"
    ELSE IF Contains(low, "appropriate cloud resources") \/ Contains(low, "compute resources")
    THEN "Performance Efficiency"
    ELSE IF Contains(low, "financial management") \/ Contains(low, "cost")
    THEN "Cost Optimization"
    ELSE IF Contains(low, "sustainability") THEN "Sustainability"
    ELSE active

\* the pillar that was active when the question of log entry n was read
ActiveBefore(n) == IF n = 1 THEN None ELSE log[n - 1].q.pillar

\* every question whose key is the key of no pillar-tagged header has the pillar of
\* the rule
FallbackFollowed(with_operate) ==
    pc = "done" =>
        \A n \in 1..Len(log) :
            HeadersWith(KeyOf(n)) = {}
              => log[n].q.pillar
                    = FallbackRule(KeyOf(n)[1], log[n].q.question, ActiveBefore(n),
                                   with_operate)

\* C22 as stated: a question whose key is not in the pass-1 map gets Operational
\* Excellence if its number is <= 11 and no pillar is active, otherwise the pillar
\* of the first matching rule in the order Security ("security"), Reliability,
\* Performance Efficiency, Cost Optimization, Sustainability, and keeps the active
\* pillar if none matches.  ("securely operate" also gives Security, so this fails.)
C22_FallbackAsStated == FallbackFollowed(FALSE)

\* C22: the same, Security being matched by "securely operate" as well as by
\* "security"; the active pillar persists across questions and pages.
C22_FallbackWithSecurelyOperate == FallbackFollowed(TRUE)

\* a question on a later page that keeps the pillar the keywords of an earlier
\* page's question gave, COST and Security both in that text
C22_Witness ==
    /\ pc = "done"
    /\ \E n \in 2..Len(log) :
          /\ log[n].page > log[n - 1].page
          /\ log[n - 1].q.question = "Manage COST of Security"
          /\ log[n - 1].q.pillar = "Security"
          /\ log[n].q.question = "How do you plan"
          /\ log[n].q.pillar = "Security"

(***************************************************************************)
(* The end of the property section.                                        *)
(***************************************************************************)
\* the dict the property loop returns when it goes through the lines ls from line
\* at on, props and label being the dict and the current label there
RECURSIVE PropsFrom(_, _, _, _)
PropsFrom(ls, at, props, label) ==
    IF at > Len(ls) THEN DatePromotion(AccountIdFallback(props))
    ELSE IF IsNoise(ls[at]) THEN DatePromotion(AccountIdFallback(props))
    ELSE LET after == PropsAfterLine(props, label, ls, at)
         IN PropsFrom(ls, after.j, after.props, after.label)

\* the header line of the page the parser stopped on
HeaderAt ==
    CHOOSE k \in 1..Len(prop_lines) :
        /\ prop_lines[k] = "Workload properties"
        /\ \A m \in 1..(k - 1) : prop_lines[m] # "Workload properties"

\* the lines after the header that contain a copyright mark or "Page "
NoiseAfterHeader ==
    {k \in (HeaderAt + 1)..Len(prop_lines) :
        Contains(prop_lines[k], "©") \/ Contains(prop_lines[k], "Page ")}

\* the first of them
FirstNoise == CHOOSE k \in NoiseAfterHeader : \A m \in NoiseAfterHeader : k <= m

\* the header was found and a line after it is a copyright or page line
SectionCutShort ==
    /\ pc = "props_done"
    /\ prop_page <= LastPropPage
    /\ NoiseAfterHeader # {}

\* the dict is the one the lines before the first copyright or page line give
CutAtFirstNoise ==
    workload_props = PropsFrom(SubSeq(prop_lines, 1, FirstNoise - 1), HeaderAt + 1, <<>>, None)

\* every ARN and Description label between the header and the first copyright or
\* page line is followed, before that line, by a label that ends its value
ValuesEndedBefore(last) ==
    \A k \in (HeaderAt + 1)..(last - 1) :
        /\ prop_lines[k] = "ARN"
              => \E m \in (k + 1)..(last - 1) : prop_lines[m] \in {"Description", "Review owner"}
        /\ prop_lines[k] = "Description"
              => \E m \in (k + 1)..(last - 1) : prop_lines[m] \in {"Review owner", "Industry type"}

\* C23 as stated: once the header was found, no line at or after the first following
\* line that contains a copyright mark or "Page " contributes to any property value,
\* the multi-line ARN and Description values included.  (The continuation loops of
\* ARN and Description pass over such a line and go on, so this fails.)
C23_NothingAfterFirstNoise == SectionCutShort => CutAtFirstNoise

\* C23: once the header was found, no line at or after the first following line
\* that contains a copyright mark or "Page " contributes to any property value,
\* provided every ARN and Description label before that line is followed, before
\* that line, by a label that ends its value ("Description" or "Review owner" for
\* ARN, "Review owner" or "Industry type" for Description).
C23_NothingAfterNoiseOutsideValues ==
    (SectionCutShort /\ ValuesEndedBefore(FirstNoise)) => CutAtFirstNoise

\* an ARN value ended by its label, then a page line, then a line that is left out
C23_Witness ==
    /\ SectionCutShort
    /\ ValuesEndedBefore(FirstNoise)
    /\ \E k \in (HeaderAt + 1)..(FirstNoise - 1) : prop_lines[k] = "ARN"
    /\ DictHas(workload_props, "ARN")
    /\ FirstNoise < Len(prop_lines)
    /\ prop_lines[FirstNoise + 1] \notin PropertyLabels \cup {"-"}

(***************************************************************************)
(* The text of a question.  The documents begin with a question on one or  *)
(* two lines and go on with section headers, risk lines, short lines and   *)
(* the markers the cleaning removes.                                       *)
(***************************************************************************)
TextLines ==
    {"Notes", "Improvement plan", "High risk", "Unanswered", "Not Applicable", "and",
     "at rest in the cloud", "8. How do you protect data?"}

TextBeginnings ==
    {<<"7. How do you classify data?">>,
     <<"7. How do you", "classify data?", "Selected choice(s)">>}

InitText == InitAt("pass1", Documents(TextBeginnings, TextLines, MaxTail))

SpecText == InitText /\ [][NextSeg]_vars

\* the section-header prefixes
SectionPrefixes ==
    {"Selected choice(s)", "Not selected choice(s)",
     "Best Practices marked as Not Applicable", "Notes", "Improvement plan"}

\* the prefixes the question-text loop stops at
StopPrefixes ==
    {"Selected", "Not selected", "Best Practices", "High risk", "Medium risk", "Low risk",
     "No improvements", "Unanswered"}

\* the line ends the text of the question before it
EndsText(line, as_stated) ==
    \/ \E prefix \in (IF as_stated THEN SectionPrefixes ELSE StopPrefixes) :
          Len(line) >= Len(prefix) /\ SubSeq(line, 1, Len(prefix)) = prefix
    \/ QuestionBoundary(line)

\* the first line after line k of page p that ends the text, or the end of the page
TextStop(p, k, as_stated) ==
    LET ends == {m \in (k + 1)..Len(pages[p]) : EndsText(LineAt(p, m), as_stated)} IN
    IF ends = {} THEN Len(pages[p]) + 1
    ELSE CHOOSE m \in ends : \A other \in ends : m <= other

RECURSIVE TextJoined(_, _, _, _)
\* text, and the lines k .. to - 1 of page p of more than three characters,
\* space-joined
TextJoined(text, p, k, to) ==
    IF k >= to THEN text
    ELSE TextJoined(IF Len(LineAt(p, k)) > 3 THEN text \o " " \o LineAt(p, k) ELSE text,
                    p, k + 1, to)

\* the text of every question is the text after "N." on its start line and the
\* lines up to the first that ends the text, without a trailing marker
TextAssembled(as_stated) ==
    \A n \in 1..Len(log) :
        LET e == log[n]
            to == TextStop(e.page, e.start, as_stated)
        IN /\ e.block_start = to
           /\ e.q.question =
                CleanQuestionText(TextJoined(QuestionText(LineAt(e.page, e.start)),
                                             e.page, e.start + 1, to))
           /\ \A m \in (e.start + 1)..(e.block_start - 1) :
                 ~EndsText(LineAt(e.page, m), as_stated)

\* C24 as stated: the text of a Question is the text after "N." on its start line
\* followed, space-joined, by the following lines up to but excluding the first
\* line that starts with a section-header prefix (Selected choice(s), Not selected
\* choice(s), Best Practices marked as Not Applicable, Notes, Improvement plan) or
\* matches the next question pattern; it never contains a section-header line, and
\* a trailing "Unanswered" or "Not Applicable" is stripped.  (A "Notes" or
\* "Improvement plan" line does not end the text, a risk line does.)
C24_TextUpToSectionHeader == TextAssembled(TRUE)

\* C24: the text of a Question is the text after "N." on its start line followed,
\* space-joined, by the following lines of more than three characters up to but
\* excluding the first line that starts with "Selected", "Not selected", "Best
\* Practices", "High risk", "Medium risk", "Low risk", "No improvements" or
\* "Unanswered" or matches the next question pattern; no line that starts so is
\* part of it, and a trailing "Unanswered" or "Not Applicable" is stripped.
C24_TextUpToStopPrefix == TextAssembled(FALSE)

\* a question whose text takes a "Notes" line, loses a trailing "Not Applicable"
\* and ends at a risk line
C24_Witness ==
    /\ pc = "done"
    /\ \E n \in 1..Len(log) :
          /\ log[n].block_start = log[n].start + 3
          /\ Len(pages[log[n].page]) >= log[n].start + 3
          /\ LineAt(log[n].page, log[n].start + 1) = "Notes"
          /\ LineAt(log[n].page, log[n].start + 2) = "Not Applicable"
          /\ LineAt(log[n].page, log[n].start + 3) = "High risk"
          /\ log[n].q.question = "How do you classify data? Notes"

(***************************************************************************)
(* Pillar-tagged headers with the same key.  The documents hold headers of *)
(* two pillars whose number and first four words agree, and a question     *)
(* with that key.                                                          *)
(***************************************************************************)
CollisionLines ==
    {"SEC 7.Do we tag it all?", "REL 7. do we tag it now", "OPS 7.Do we tag",
     "7. Do we tag it all?"}

CollisionBeginnings ==
    {<<>>, <<"7. Do we", "tag it all?", "Selected choice(s)">>}

InitCollision == InitAt("pass1", Documents(CollisionBeginnings, CollisionLines, MaxTail))

SpecCollision == InitCollision /\ [][NextSeg]_vars

\* the places <<page, line>> of the document
AllPlaces == UNION {{<<p, k>> : k \in 1..Len(pages[p])} : p \in 1..Len(pages)}

\* the places of the pillar-tagged headers
HeaderPlaces == {pl \in AllPlaces : ProperIdMatch(LineAt(pl[1], pl[2]))}

\* the key of the header at a place
HeaderKey(pl) ==
    <<ProperIdNum(LineAt(pl[1], pl[2])),
      question_key_words(ProperIdText(LineAt(pl[1], pl[2])))>>

\* C25: when pillar-tagged header lines produce the same key (question number,
\* first four lower-cased words), the pass-1 map holds the (pillar, abbreviation)
\* of the one occurring last in the document (page order, then line order), the
\* map has an entry for every header key and no other, and every pass-2 question
\* with that key is assigned that later pillar.
C25_LastHeaderWins ==
    pc # "pass1"
      => LET places == HeaderPlaces
             key == [pl \in places |-> HeaderKey(pl)]
             last == [pl \in places |->
                        HeaderAbbrev(LastPlace({other \in places : key[other] = key[pl]}))]
         IN /\ DOMAIN question_pillar_map = {key[pl] : pl \in places}
            /\ \A pl \in places :
                  question_pillar_map[key[pl]] = <<pillar_map(last[pl]), last[pl]>>
            /\ \A n \in 1..Len(log) :
                  LET asked == KeyOf(n) IN
                  \A pl \in places :
                     key[pl] = asked => log[n].q.pillar = pillar_map(last[pl])

\* a question whose key is the key of a Security header and of a later Reliability
\* header, and is assigned Reliability
C25_Witness ==
    /\ pc = "done"
    /\ \E n \in 1..Len(log) : \E a, b \in HeaderPlaces :
          /\ HeaderKey(a) = KeyOf(n)
          /\ HeaderKey(b) = KeyOf(n)
          /\ HeaderAbbrev(a) = "SEC"
          /\ HeaderAbbrev(b) = "REL"
          /\ b = LastPlace({other \in HeaderPlaces : HeaderKey(other) = HeaderKey(a)})
          /\ log[n].q.pillar = "Reliability"

(***************************************************************************)
(* The promotion of a date.  The documents hold values that are a date,    *)
(* that hold one date among other words and that hold two dates.           *)
(***************************************************************************)
DateLines ==
    {"Environment", "Architectural design", "3/14/2024", "Due 3/14/2024 or 4/1/2025",
     "Production"}

DateBeginnings ==
    {<<>>, <<"Workload properties">>, <<"Workload properties", "Environment">>}

InitDates == InitAt("props", Documents(DateBeginnings, DateLines, MaxTail))

SpecDates == InitDates /\ [][NextProps]_vars

\* the places of s where a substring shaped D/D/YYYY starts
DatePlaces(s) == {k \in 1..Len(s) : DateAt(s, k) > 0}

\* the first of them
FirstDatePlace(s) == CHOOSE k \in DatePlaces(s) : \A m \in DatePlaces(s) : k <= m

\* s without its first date
WithoutFirstDate(s) ==
    LET k == FirstDatePlace(s) IN
    SubSeq(s, 1, k - 1) \o SubSeq(s, k + DateAt(s, k), Len(s))

RECURSIVE WithoutDates(_)
\* s without any of its dates, taken from left to right
WithoutDates(s) ==
    IF DatePlaces(s) = {} THEN s
    ELSE LET k == FirstDatePlace(s) IN
         SubSeq(s, 1, k - 1) \o WithoutDates(SubSeq(s, k + DateAt(s, k), Len(s)))

\* the dict returned is the dict before with the first date of its first dated
\* value as the new last property "Date", and that value without its first date
\* (as stated) or without any of its dates, "Application" if nothing else is left
DatePromoted(before, after, as_stated) ==
    LET dated == {k \in 1..Len(before) : DatePlaces(before[k][2]) # {}} IN
    IF dated = {} THEN after = before
    ELSE LET k == CHOOSE h \in dated : \A m \in dated : h <= m
             value == before[k][2]
             at == FirstDatePlace(value)
             rest == Strip(IF as_stated THEN WithoutFirstDate(value)
                           ELSE WithoutDates(value))
         IN /\ Len(after) = Len(before) + 1
            /\ after[Len(after)] = <<"Date", SubSeq(value, at, at + DateAt(value, at) - 1)>>
            /\ \A m \in 1..Len(before) : m # k => after[m] = before[m]
            /\ after[k] = <<before[k][1], IF rest = "" THEN "Application" ELSE rest>>

\* C26 as stated: when the property block was found, the first property value (in
\* the order the properties were recorded) that contains a substring shaped
\* D/D/YYYY has that first match copied to a new "Date" property and removed from
\* the originating value, which becomes "Application" if nothing else is left; at
\* most one property is modified, and without such a substring no "Date" key is
\* added.  (Every date of the value is removed, not the first match alone.)
C26_FirstDateRemoved ==
    [][ReturnsProps
         => DatePromoted(AccountIdFallback(workload_props), workload_props', TRUE)]_vars

\* C26: when the property block was found, the first property value (in the order
\* the properties were recorded) that contains a substring shaped D/D/YYYY has its
\* first match copied to a new "Date" property and every substring of that shape
\* removed from the originating value, which becomes "Application" if nothing else
\* is left; at most one property is modified, and without such a substring no
\* "Date" key is added.
C26_EveryDateRemoved ==
    [][ReturnsProps
         => DatePromoted(AccountIdFallback(workload_props), workload_props', FALSE)]_vars

\* a value that was a date and became "Application", the date promoted, and a
\* later dated value left as it was
C26_Witness ==
    /\ pc = "props_done"
    /\ workload_props = <<<<"Environment", "Application">>,
                          <<"Architectural design", "Due 3/14/2024 or 4/1/2025">>,
                          <<"Date", "3/14/2024">>>>

(***************************************************************************)
(* Questions and page boundaries.  The documents begin with a question     *)
(* that opens a section and go on, over page breaks, with data lines, risk *)
(* lines, an improvement plan and another question.                        *)
(***************************************************************************)
ConfineLines ==
    {"13. How do you plan", "Encrypt data at rest", "Not selected choice(s)",
     "High risk", "Improvement plan"}

ConfineBeginnings ==
    {<<>>, <<"12. How do you", "securely operate?", "Selected choice(s)">>}

InitConfine == InitAt("pass1", Documents(ConfineBeginnings, ConfineLines, MaxTail))

SpecConfine == InitConfine /\ [][NextSeg]_vars

\* the first line from k on of page p that matches ^\d+\.\s, or the end of the page
BlockStop(p, k) ==
    LET ends == {m \in k..Len(pages[p]) : QuestionBoundary(LineAt(p, m))} IN
    IF ends = {} THEN Len(pages[p]) + 1
    ELSE CHOOSE m \in ends : \A other \in ends : m <= other

\* the question of log entry n is made of lines of its own page alone: of its
\* start line, the text lines after it and the block after them, read from the
\* state a question starts in
MadeOfOwnPage(n) ==
    LET e == log[n]
        p == e.page
        text == TextStop(p, e.start, FALSE)
        to == BlockStop(p, text)
        Of(name) == Gathered(p, text, to, "none", name, FALSE)
    IN /\ p \in 1..Len(pages)
       /\ e.start \in 1..Len(pages[p])
       /\ QuestionMatch(LineAt(p, e.start))
       /\ e.block_start = text
       /\ e.block_end = to
       /\ e.q.question =
            CleanQuestionText(TextJoined(QuestionText(LineAt(p, e.start)), p, e.start + 1,
                                         text))
       /\ e.raw_selected = Of("selected")
       /\ e.raw_not_selected = Of("not_selected")
       /\ e.raw_na = Of("na")
       /\ e.q.notes = Join("\n", Of("notes"))
       /\ e.q.improvement_plan
            = Join("\n", CleanPlans(ItemsGathered(p, text, to, "none", <<>>)))
       /\ e.detected_risk = LastMarker(pages[p], text, to - 1)

\* the questions come in document order and share no line
InDocumentOrder ==
    \A m, n \in 1..Len(log) :
       m < n => \/ log[m].page < log[n].page
                \/ log[m].page = log[n].page /\ log[m].block_end <= log[n].start

\* the lines of a page before its first question line are lines of no question
LeadingLinesFree ==
    \A n \in 1..Len(log) :
       \A k \in 1..(NextQuestionLine(pages[log[n].page], 1) - 1) : k < log[n].start

\* the pillar of a question is resolved from the pillar of the question before it,
\* on whatever page that one was
PillarCarried ==
    \A n \in 1..Len(log) :
       log[n].q.pillar
         = ResolvePillar(question_pillar_map,
                         QuestionNum(LineAt(log[n].page, log[n].start)),
                         log[n].q.question,
                         IF n = 1 THEN None ELSE log[n - 1].q.pillar).pillar

\* C27: the segmenter state (current question, section state, risk level, buckets)
\* does not carry across a page boundary: the text, choices, notes, improvement
\* items and risk level of a question are made of lines of its own page from its
\* start line on, lines of a page that precede its first question line contribute
\* to no Question, a page is left only between questions, and only the active
\* pillar carries across pages.
C27_PageConfinement ==
    /\ \A n \in 1..Len(log) : MadeOfOwnPage(n)
    /\ InDocumentOrder
    /\ LeadingLinesFree
    /\ PillarCarried
    /\ (pc \in {"qtext", "block"} => j <= Len(lines) + 1 /\ i <= Len(lines))

\* a question that opened the selected section on the first page, and on the second
\* page a data line of no question and a question with the pillar carried over
C27_Witness ==
    /\ pc = "done"
    /\ Len(pages) = 2
    /\ Len(log) = 2
    /\ log[1].page = 1
    /\ log[1].block_end = Len(pages[1]) + 1
    /\ LineAt(1, Len(pages[1])) = "Selected choice(s)"
    /\ log[1].raw_selected = <<>>
    /\ log[1].q.pillar = "Security"
    /\ log[2].page = 2
    /\ log[2].start = 2
    /\ LineAt(2, 1) = "Encrypt data at rest"
    /\ log[2].q.pillar = "Security"

(***************************************************************************)
(* The pillar lists and the questions in them.                             *)
(***************************************************************************)
\* the abbreviation of each of the six pillars
AbbreviationOf ==
    [name \in {"Operational Excellence", "Security", "Reliability",
               "Performance Efficiency", "Cost Optimization", "Sustainability"} |->
        CASE name = "Operational Excellence" -> "OPS"
          [] name = "Security" -> "SEC"
          [] name = "Reliability" -> "REL"
          [] name = "Performance Efficiency" -> "PERF"
          [] name = "Cost Optimization" -> "COST"
          [] name = "Sustainability" -> "SUS"]

\* the part of a question id before its dash
IdPrefix(id) ==
    LET dashes == {k \in 1..Len(id) : SubSeq(id, k, k) = "-"} IN
    IF dashes = {} THEN id
    ELSE SubSeq(id, 1, (CHOOSE k \in dashes : \A m \in dashes : k <= m) - 1)

\* C28: every Question stored in the list pillars[P] of the PDF record has
\* pillar = P and a question_id whose prefix is the abbreviation of P (OPS, SEC,
\* REL, PERF, COST, SUS for the six pillars in order), whether the pillar came from
\* the pass-1 map or from the fallback heuristic; no stored Question has the prefix
\* "UNK".
C28_ListsAgreeWithQuestions ==
    /\ DOMAIN pillars = DOMAIN AbbreviationOf
    /\ \A name \in DOMAIN pillars : \A k \in 1..Len(pillars[name]) :
          /\ pillars[name][k].pillar = name
          /\ IdPrefix(pillars[name][k].question_id) = AbbreviationOf[name]
          /\ IdPrefix(pillars[name][k].question_id) # "UNK"

\* a stored question of the pass-1 map, then a stored question the fallback moved
\* to another pillar
C28_Witness ==
    /\ pc = "done"
    /\ \E m, n \in 1..Len(log) :
          /\ m < n
          /\ log[m].proper
          /\ log[m].q.pillar = "Security"
          /\ ~log[n].proper
          /\ log[n].q.pillar = "Cost Optimization"
          /\ \E k \in 1..Len(pillars["Cost Optimization"]) :
                pillars["Cost Optimization"][k] = log[n].q
          /\ \E k \in 1..Len(pillars["Security"]) : pillars["Security"][k] = log[m].q

(***************************************************************************)
(* The cursors of pass 2.  Termination is shown by a rank that every step  *)
(* on a page increases and that the length of the page bounds.             *)
(***************************************************************************)
\* how far pass 2 is on its page: three times the line its front cursor is on,
\* and one more once the text of a question is read, two more between questions
Rank ==
    CASE pc = "qtext" -> 3 * j
      [] pc = "block" -> 3 * j + 1
      [] pc = "scan" -> 3 * i + 2
      [] OTHER -> 0

\* every step on a page takes pass 2 further, and a step leaves the page for the
\* next page or for the end only
Advances ==
    pc \in {"scan", "qtext", "block"}
      => \/ pc' \in {"scan", "qtext", "block"} /\ page_num' = page_num /\ Rank' > Rank
         \/ pc' = "scan" /\ page_num' = page_num + 1
         \/ pc' = "done" /\ page_num = Len(pages)

\* pass 2 is never further than the end of its page and never past the last page
Bounded ==
    pc \in {"scan", "qtext", "block"}
      => /\ page_num \in 1..Len(pages)
         /\ Rank <= 3 * (Len(lines) + 1) + 2

\* what a step does to the cursors: the page never goes back, the cursors never go
\* back on a page, and every iteration of the outer scan, of the question-text loop
\* and of the block loop moves its cursor forward
CursorForward ==
    /\ pc # "pass1" =>
          /\ page_num' >= page_num
          /\ page_num' = page_num => i' >= i
          /\ (page_num' = page_num /\ pc # "scan") => j' >= j
          /\ page_num' # page_num => page_num' = page_num + 1 /\ i' = 1 /\ pc = "scan"
    /\ (pc = "scan" /\ pc' = "scan" /\ page_num' = page_num) => i' = i + 1
    /\ (pc = "scan" /\ pc' = "qtext") => i' = i /\ j' = i + 1
    /\ (pc = "qtext" /\ pc' = "qtext") => i' = i /\ j' = j + 1
    /\ (pc = "qtext" /\ pc' = "block") => i' = i /\ j' = j
    /\ (pc = "block" /\ pc' = "block") => i' = i /\ j' = j + 1
    /\ (pc = "block" /\ pc' = "scan") => i' = j /\ i' > i

\* the cursors stay on the page, up to its end
CursorsOnPage ==
    pc \in {"scan", "qtext", "block"}
      => /\ i \in 1..(Len(lines) + 1)
         /\ pc # "scan" => i <= Len(lines) /\ j \in (i + 1)..(Len(lines) + 1)

\* no line is a line of two questions
LinesOfOneQuestion ==
    \A p \in 1..Len(pages) : \A k \in 1..Len(pages[p]) :
       Cardinality({n \in 1..Len(log) :
                      log[n].page = p /\ log[n].start <= k /\ k < log[n].block_end}) <= 1

\* C29: pass 2 terminates on every finite page: the line cursor strictly increases
\* on every iteration of the outer scan, the question-text loop and the block
\* loop, it never moves backwards, and each line of a page is consumed by at most
\* one Question (as its start line, as part of its text, or as part of its block).
\* Every step on a page increases a rank the page's length bounds, and a page is
\* left for the next page or the end only.
C29_Pass2Terminates ==
    /\ [][CursorForward /\ Advances]_vars
    /\ [](CursorsOnPage /\ Bounded /\ LinesOfOneQuestion)

\* the document is read, a line that matches the question pattern without a space
\* after the dot was a block line of the question before it, and another question
\* follows
C29_Witness ==
    /\ pc = "done"
    /\ \E m, n \in 1..Len(log) :
          /\ log[m].page = log[n].page
          /\ log[m].block_end = log[n].start
          /\ \E k \in log[m].block_start..(log[m].block_end - 1) :
                QuestionMatch(LineAt(log[m].page, k))

(***************************************************************************)
(* The matcher and the order of the base URLs.                             *)
(***************************************************************************)
\* the URL a call with the arguments of the step would return were the set of
\* base URLs enumerated in the given order
UrlUnder(order) ==
    match_improvement_item_to_url(toc_site, wa_cache, item_text', order).url

\* C30: for a fixed item text, a fixed list of page hyperlinks and fixed
\* table-of-contents documents, match_improvement_item_to_url returns the same URL
\* in every run, independent of the order in which the distinct base URLs derived
\* from the hyperlinks are enumerated when their (title, url) lists are
\* concatenated.  (The first matching title of the concatenation is returned, so
\* two bases with a matching title give two answers.)
C30_SameUrlInEveryOrder ==
    [][(pc = "match" /\ calls' = calls + 1)
         => \A order \in Orders(base_urls(available_urls')) :
               UrlUnder(order) = matched_url']_vars

(***************************************************************************)
(* The program: get_workload_data on a document, and matcher calls.        *)
(***************************************************************************)
\* get_workload_data goes from the properties to the improvement plan
StartPlan ==
    /\ pc = "props_done"
    /\ pc' = "pass1"
    /\ UNCHANGED <<apiVars, linkVars, envVars, wa_cache, segVars, propVars, matchVars>>

ProgramLines == {"Workload properties", "ARN", "7. How do you classify data?", "High risk"}

Init ==
    \/ InitAt("props", Documents({<<>>}, ProgramLines, MaxTail))
    \/ InitMatch
    \/ InitApi

Next ==
    \/ NextProps
    \/ StartPlan
    \/ NextSeg
    \/ NextFetch
    \/ NextApi

Spec == Init /\ [][Next]_vars

====
